---- MODULE Spec2Model ----
(***************************************************************************)
(* The action-resolution and progression engine of the cultivation game   *)
(* (versions/v2.0-enterprise): models.py, actions.py, rules.py and        *)
(* core/game_core.py.                                                      *)
(*                                                                         *)
(* Strings of the source that are not ASCII are written in pinyin:        *)
(*   action names   dazuo = 打坐, chidanyao = 吃丹药, xiulian = 修炼,      *)
(*                  dengdai = 等待                                         *)
(*   realm values   lianqiqi = 炼气期, zhujiqi = 筑基期, jiedanqi = 结丹期,*)
(*                  yuanyingqi = 元婴期, huashenqi = 化神期, feisheng = 飞升*)
(*   character name wumingxiushi = 无名修士, ceshi = 测试                  *)
(* A formatted message (an f-string) is the record Msg(text, name, nums): *)
(* its fixed text, the string and the numbers formatted into it.          *)
(* An Optional value is a sequence: None is << >>, a value v is <<v>>.    *)
(***************************************************************************)
EXTENDS Integers, Sequences, FiniteSets, TLC

VARIABLES
    core,       \* the GameCore object: character, game_log, is_game_over, difficulty
    caller,     \* the caller of the engine: the plan it plays by and its calls so far
    experience, \* a stand-alone ExperienceComponent (the unit under SpecExp)
    call,       \* the last operation invoked and its arguments
    ret,        \* what that operation returned
    handler,    \* event_handler, the EventHandler of the module
    events,     \* the events that operation dispatched, in order
    saves,      \* what saves/save_slot_1.json holds (None: no such file)
    manager,    \* a StateManager
    registry,   \* an ActionRegistry
    app         \* the GameApplication that owns the engine: its own counters

vars == <<core, caller, experience, call, ret, handler, events, saves, manager, registry, app>>

None == << >>
Some(v) == <<v>>

Msg(text, name, nums) == [text |-> text, name |-> name, nums |-> nums]

Min(a, b) == IF a <= b THEN a ELSE b
Max(a, b) == IF a >= b THEN a ELSE b

(***************************************************************************)
(* models.py: RealmLevel                                                   *)
(***************************************************************************)
\* list(RealmLevel): the members in definition order
realms ==
    <<"QI_REFINING", "FOUNDATION", "CORE_FORMATION", "NASCENT_SOUL",
      "SPIRITUAL_TRANSFORMATION", "ASCENSION">>

RealmLevel == {realms[i] : i \in 1..Len(realms)}

\* RealmLevel.<member>.value
RealmValue ==
    [QI_REFINING |-> "lianqiqi", FOUNDATION |-> "zhujiqi",
     CORE_FORMATION |-> "jiedanqi", NASCENT_SOUL |-> "yuanyingqi",
     SPIRITUAL_TRANSFORMATION |-> "huashenqi", ASCENSION |-> "feisheng"]

\* realms.index(realm), counted from 1
RealmIndex(realm) == CHOOSE i \in 1..Len(realms) : realms[i] = realm

(***************************************************************************)
(* models.py: ExperienceComponent                                          *)
(***************************************************************************)
\* A threshold is a number or float('inf').
Fin(n) == [inf |-> FALSE, n |-> n]
Inf == [inf |-> TRUE, n |-> 0]

\* x >= threshold, as Python compares an int with a float
GreaterEq(x, threshold) == ~threshold.inf /\ x >= threshold.n

Less(x, threshold) == threshold.inf \/ x < threshold.n

realm_thresholds ==
    [QI_REFINING |-> Fin(100), FOUNDATION |-> Fin(200),
     CORE_FORMATION |-> Fin(400), NASCENT_SOUL |-> Fin(800),
     SPIRITUAL_TRANSFORMATION |-> Fin(1600), ASCENSION |-> Inf]

ExperienceComponent ==
    [total_experience |-> 0,
     current_level_experience |-> 0,
     current_realm |-> "QI_REFINING"]

\* a mutant: the breakthrough needs more than the threshold
add_experience_strict(self, amount) ==
    LET total == self.total_experience + amount
        level == self.current_level_experience + amount
        threshold == realm_thresholds[self.current_realm]
    IN  IF ~threshold.inf /\ level > threshold.n
           /\ self.current_realm # "ASCENSION"
           /\ RealmIndex(self.current_realm) < Len(realms)
        THEN LET next == realms[RealmIndex(self.current_realm) + 1]
             IN  [self |-> [total_experience |-> total,
                            current_level_experience |-> level - threshold.n,
                            current_realm |-> next],
                  ret |-> [breakthrough |-> TRUE,
                           msg |-> Some(Msg("tupozhi", RealmValue[next], <<>>))]]
        ELSE [self |-> [total_experience |-> total,
                        current_level_experience |-> level,
                        current_realm |-> self.current_realm],
              ret |-> [breakthrough |-> FALSE, msg |-> None]]

\* a mutant: the breakthrough check loops, crossing every threshold reached
RECURSIVE add_experience_settle(_, _)
add_experience_settle(self, broke) ==
    LET threshold == realm_thresholds[self.current_realm]
    IN  IF GreaterEq(self.current_level_experience, threshold)
           /\ self.current_realm # "ASCENSION"
        THEN add_experience_settle(
                 [self EXCEPT
                     !.current_level_experience = @ - threshold.n,
                     !.current_realm = realms[RealmIndex(@) + 1]],
                 TRUE)
        ELSE [self |-> self,
              ret |-> [breakthrough |-> broke,
                       msg |-> IF broke
                               THEN Some(Msg("tupozhi",
                                             RealmValue[self.current_realm], <<>>))
                               ELSE None]]

add_experience_loop(self, amount) ==
    add_experience_settle(
        [self EXCEPT !.total_experience = @ + amount,
                     !.current_level_experience = @ + amount],
        FALSE)

\* a mutant: a breakthrough starts the total over from the level experience
add_experience_total_reset(self, amount) ==
    LET total == self.total_experience + amount
        level == self.current_level_experience + amount
        threshold == realm_thresholds[self.current_realm]
    IN  IF GreaterEq(level, threshold) /\ self.current_realm # "ASCENSION"
        THEN LET next == realms[RealmIndex(self.current_realm) + 1]
             IN  [self |-> [total_experience |-> level - threshold.n,
                            current_level_experience |-> level - threshold.n,
                            current_realm |-> next],
                  ret |-> [breakthrough |-> TRUE,
                           msg |-> Some(Msg("tupozhi", RealmValue[next], <<>>))]]
        ELSE [self |-> [total_experience |-> total,
                        current_level_experience |-> level,
                        current_realm |-> self.current_realm],
              ret |-> [breakthrough |-> FALSE, msg |-> None]]

\* a mutant: the experience piles up and no tier is ever left
add_experience_no_breakthrough(self, amount) ==
    [self |-> [self EXCEPT !.total_experience = @ + amount,
                           !.current_level_experience = @ + amount],
     ret |-> [breakthrough |-> FALSE, msg |-> None]]

\* a mutant: a breakthrough starts the new tier at 0 and drops what was left over
add_experience_drop_remainder(self, amount) ==
    LET total == self.total_experience + amount
        level == self.current_level_experience + amount
        threshold == realm_thresholds[self.current_realm]
    IN  IF GreaterEq(level, threshold) /\ self.current_realm # "ASCENSION"
        THEN LET next == realms[RealmIndex(self.current_realm) + 1]
             IN  [self |-> [total_experience |-> total,
                            current_level_experience |-> 0,
                            current_realm |-> next],
                  ret |-> [breakthrough |-> TRUE,
                           msg |-> Some(Msg("tupozhi", RealmValue[next], <<>>))]]
        ELSE [self |-> [total_experience |-> total,
                        current_level_experience |-> level,
                        current_realm |-> self.current_realm],
              ret |-> [breakthrough |-> FALSE, msg |-> None]]

\* add_experience(amount) -> (breakthrough, message): the component after the
\* call and the tuple returned
add_experience(self, amount) ==
    LET total == self.total_experience + amount
        level == self.current_level_experience + amount
        threshold == realm_thresholds[self.current_realm]
    IN  IF GreaterEq(level, threshold)
           /\ self.current_realm # "ASCENSION"
           /\ RealmIndex(self.current_realm) < Len(realms)
        THEN LET next == realms[RealmIndex(self.current_realm) + 1]
             IN  [self |-> [total_experience |-> total,
                            current_level_experience |-> level - threshold.n,
                            current_realm |-> next],
                  ret |-> [breakthrough |-> TRUE,
                           msg |-> Some(Msg("tupozhi", RealmValue[next], <<>>))]]
        ELSE [self |-> [total_experience |-> total,
                        current_level_experience |-> level,
                        current_realm |-> self.current_realm],
              ret |-> [breakthrough |-> FALSE, msg |-> None]]

(***************************************************************************)
(* models.py: Cost, HealthComponent, ManaComponent                        *)
(***************************************************************************)
Cost(hp, mp, pills, time) == [hp |-> hp, mp |-> mp, pills |-> pills, time |-> time]

HealthComponent == [max_hp |-> 100, current_hp |-> 100]

\* a mutant: restore without the cap at max_hp
health_restore_uncapped(self, amount) ==
    [self |-> [self EXCEPT !.current_hp = @ + amount], ret |-> amount]

\* HealthComponent.restore(amount) -> the amount actually added
health_restore(self, amount) ==
    LET old_hp == self.current_hp
        new_hp == Min(self.max_hp, self.current_hp + amount)
    IN  [self |-> [self EXCEPT !.current_hp = new_hp], ret |-> new_hp - old_hp]

\* HealthComponent.consume(amount) -> the amount actually removed
health_consume(self, amount) ==
    LET old_hp == self.current_hp
        new_hp == Max(0, self.current_hp - amount)
    IN  [self |-> [self EXCEPT !.current_hp = new_hp], ret |-> old_hp - new_hp]

health_is_alive(self) == self.current_hp > 0

ManaComponent == [max_mp |-> 100, current_mp |-> 100 \div 2]

\* a mutant: restore reports the amount asked for, not the amount added
mana_restore_reports_requested(self, amount) ==
    [self |-> [self EXCEPT !.current_mp = Min(self.max_mp, self.current_mp + amount)],
     ret |-> amount]

\* ManaComponent.restore(amount) -> the amount actually added
mana_restore(self, amount) ==
    LET old_mp == self.current_mp
        new_mp == Min(self.max_mp, self.current_mp + amount)
    IN  [self |-> [self EXCEPT !.current_mp = new_mp], ret |-> new_mp - old_mp]

\* a mutant: a consume that cannot be paid takes what mana there is
mana_consume_partial(self, amount) ==
    IF self.current_mp >= amount
    THEN [self |-> [self EXCEPT !.current_mp = @ - amount], ret |-> TRUE]
    ELSE [self |-> [self EXCEPT !.current_mp = 0], ret |-> FALSE]

\* ManaComponent.consume(amount) -> bool
mana_consume(self, amount) ==
    IF self.current_mp >= amount
    THEN [self |-> [self EXCEPT !.current_mp = @ - amount], ret |-> TRUE]
    ELSE [self |-> self, ret |-> FALSE]

(***************************************************************************)
(* models.py: TalentComponent.  A float is kept in tenths: the            *)
(* multipliers 0.8, 1.5 and 1.0 are 8, 15 and 10, and int() truncates.    *)
(***************************************************************************)
\* random.randint(1, 10)
TalentRange == 1..10

TalentComponent(talent_value) == [base_talent |-> talent_value]

talent_multipliers == [meditate |-> 8, cultivate |-> 15, pill |-> 10]

\* get_talent_bonus(base_value, action_type), in tenths
\* a mutant: the talent adds nothing to the base value
get_talent_bonus_no_talent(self, base_value, action_type) == base_value * 10

get_talent_bonus(self, base_value, action_type) ==
    LET multiplier == IF action_type \in DOMAIN talent_multipliers
                      THEN talent_multipliers[action_type]
                      ELSE 10
    IN  base_value * 10 + self.base_talent * multiplier

\* int(x) of a non-negative float kept in tenths
int(tenths) == tenths \div 10

(***************************************************************************)
(* models.py: InventoryComponent                                           *)
(***************************************************************************)
InventoryComponent == [items |-> [pill |-> 0]]

\* a mutant: nothing is ever added to the inventory
add_item_nothing(self, item_name, amount) ==
    [self |-> self, ret |-> item_name \in DOMAIN self.items]

add_item(self, item_name, amount) ==
    IF item_name \in DOMAIN self.items
    THEN [self |-> [self EXCEPT !.items[item_name] = @ + amount], ret |-> TRUE]
    ELSE [self |-> self, ret |-> FALSE]

consume_item(self, item_name, amount) ==
    IF item_name \in DOMAIN self.items /\ self.items[item_name] >= amount
    THEN [self |-> [self EXCEPT !.items[item_name] = @ - amount], ret |-> TRUE]
    ELSE [self |-> self, ret |-> FALSE]

get_item_count(self, item_name) ==
    IF item_name \in DOMAIN self.items THEN self.items[item_name] ELSE 0

(***************************************************************************)
(* models.py: CharacterStats, GameLog                                      *)
(***************************************************************************)
\* CharacterStats(name); talent_value is the number TalentComponent() draws
CharacterStats(name, talent_value) ==
    [name |-> name,
     health |-> HealthComponent,
     mana |-> ManaComponent,
     experience |-> ExperienceComponent,
     talent |-> TalentComponent(talent_value),
     inventory |-> InventoryComponent,
     meditation_streak |-> 0,
     total_actions |-> 0]

is_alive(self) == health_is_alive(self.health)

can_perform_action(self, cost) ==
    /\ self.health.current_hp >= cost.hp
    /\ self.mana.current_mp >= cost.mp
    /\ get_item_count(self.inventory, "pill") >= cost.pills

\* a mutant: each component is charged in turn, and the first that cannot pay
\* stops the call
apply_cost_in_turn(self, cost) ==
    LET health == health_consume(self.health, cost.hp).self
        mana == mana_consume(self.mana, cost.mp)
        inventory == consume_item(self.inventory, "pill", cost.pills)
        payable == self.health.current_hp >= cost.hp
    IN  IF ~payable THEN [self |-> self, ret |-> FALSE]
        ELSE IF ~mana.ret
        THEN [self |-> [self EXCEPT !.health = health], ret |-> FALSE]
        ELSE IF ~inventory.ret
        THEN [self |-> [self EXCEPT !.health = health, !.mana = mana.self], ret |-> FALSE]
        ELSE [self |-> [self EXCEPT !.health = health, !.mana = mana.self,
                                    !.inventory = inventory.self,
                                    !.total_actions = @ + 1],
              ret |-> TRUE]

\* CharacterStats.apply_cost(cost) -> bool
apply_cost(self, cost) ==
    IF ~can_perform_action(self, cost)
    THEN [self |-> self, ret |-> FALSE]
    ELSE [self |-> [self EXCEPT
                       !.health = health_consume(@, cost.hp).self,
                       !.mana = mana_consume(@, cost.mp).self,
                       !.inventory = consume_item(@, "pill", cost.pills).self,
                       !.total_actions = @ + 1],
          ret |-> TRUE]

\* CharacterStats.get_status_summary(); exp_progress, a float that nothing
\* reads back, is left out
get_status_summary(self) ==
    [name |-> self.name,
     hp |-> self.health.current_hp,
     max_hp |-> self.health.max_hp,
     mp |-> self.mana.current_mp,
     max_mp |-> self.mana.max_mp,
     realm |-> RealmValue[self.experience.current_realm],
     exp |-> self.experience.current_level_experience,
     total_exp |-> self.experience.total_experience,
     talent |-> self.talent.base_talent,
     pills |-> get_item_count(self.inventory, "pill"),
     meditation_streak |-> self.meditation_streak,
     alive |-> is_alive(self)]

GameLog == [entries |-> <<>>, max_entries |-> 100]

\* GameLog.add_entry(message)
add_entry(self, message) ==
    LET appended == Append(self.entries, message)
    IN  [self EXCEPT !.entries = IF Len(appended) > self.max_entries
                                 THEN Tail(appended)
                                 ELSE appended]

\* a message made of parts: "，".join(messages)
Text(text) == <<Msg(text, "", <<>>)>>

ActionResult(success, message, effects, costs) ==
    [success |-> success, message |-> message, effects |-> effects, costs |-> costs]

\* the empty dict
EmptyDict == << >>

(***************************************************************************)
(* actions.py: the four actions.  An action object is its class and the   *)
(* name it was constructed with.                                           *)
(***************************************************************************)
Action(class, name) == [class |-> class, name |-> name]

MeditateAction == Action("MeditateAction", "dazuo")
ConsumePillAction == Action("ConsumePillAction", "chidanyao")
CultivateAction == Action("CultivateAction", "xiulian")
WaitAction == Action("WaitAction", "dengdai")

get_cost(action) ==
    CASE action.class = "MeditateAction" -> Cost(1, 0, 0, 1)
      [] action.class = "ConsumePillAction" -> Cost(0, 0, 1, 0)
      [] action.class = "CultivateAction" -> Cost(0, 20, 0, 2)
      [] action.class = "WaitAction" -> Cost(1, 0, 0, 1)

\* a mutant: an action is eligible whenever the character is alive
can_execute_alive_only(action, character) == is_alive(character)

\* a mutant: the dead may meditate and wait
can_execute_dead_or_alive(action, character) ==
    CASE action.class = "MeditateAction" -> TRUE
      [] action.class = "ConsumePillAction" ->
            is_alive(character) /\ get_item_count(character.inventory, "pill") >= 1
      [] action.class = "CultivateAction" ->
            is_alive(character) /\ character.mana.current_mp >= get_cost(action).mp
      [] action.class = "WaitAction" -> TRUE

can_execute(action, character) ==
    CASE action.class = "MeditateAction" -> is_alive(character)
      [] action.class = "ConsumePillAction" ->
            is_alive(character) /\ get_item_count(character.inventory, "pill") >= 1
      [] action.class = "CultivateAction" ->
            is_alive(character) /\ character.mana.current_mp >= get_cost(action).mp
      [] action.class = "WaitAction" -> is_alive(character)

get_failure_message(action, character) ==
    CASE action.class = "ConsumePillAction" ->
            IF ~is_alive(character) THEN Text("niyijingwufaxingdong")
            ELSE IF get_item_count(character.inventory, "pill") < 1
                 THEN Text("meiyoudanyaokeyong")
                 ELSE Text("wufafuyongdanyao")
      [] action.class = "CultivateAction" ->
            IF ~is_alive(character) THEN Text("niyijingwufaxingdong")
            ELSE IF character.mana.current_mp < get_cost(action).mp
                 THEN Text("xianlibuzu_wufaxiulian")
                 ELSE Text("wufaxiulian")
      [] OTHER -> <<Msg("wufazhixing", action.name, <<>>)>>

\* what execute returns when can_execute is false
Refused(action, character, game_log) ==
    [character |-> character,
     game_log |-> game_log,
     result |-> ActionResult(FALSE, get_failure_message(action, character),
                             EmptyDict, EmptyDict)]

\* effects["level_up"] and effects["new_level"], set after a breakthrough
WithLevelUp(effects, breakthrough, experience_) ==
    IF breakthrough
    THEN effects @@ [level_up |-> TRUE,
                     new_level |-> RealmValue[experience_.current_realm]]
    ELSE effects

MeditateAction_execute(action, character, game_log) ==
    IF ~can_execute(action, character) THEN Refused(action, character, game_log)
    ELSE
    LET cost == get_cost(action)
        paid == apply_cost(character, cost).self
        mp_recovery == int(get_talent_bonus(paid.talent, 8, "meditate"))
        exp_gain == int(get_talent_bonus(paid.talent, 3, "meditate"))
        restored == mana_restore(paid.mana, mp_recovery)
        gained == add_experience(paid.experience, exp_gain)
        streak == paid.meditation_streak + 1
        pill_bonus == IF streak % 5 = 0 THEN 1 ELSE 0
        inventory == IF streak % 5 = 0
                     THEN add_item(paid.inventory, "pill", 1).self
                     ELSE paid.inventory
        log_message ==
            <<Msg("dazuo_huifu_huode", "", <<restored.ret, exp_gain>>)>>
            \o (IF gained.ret.breakthrough THEN gained.ret.msg ELSE <<>>)
            \o (IF pill_bonus > 0
                THEN <<Msg("lianxudazuo_huode", "", <<streak, pill_bonus>>)>>
                ELSE <<>>)
        effects == [mp_recovery |-> restored.ret,
                    exp_gain |-> exp_gain,
                    pill_bonus |-> pill_bonus]
    IN  [character |-> [paid EXCEPT !.mana = restored.self,
                                    !.experience = gained.self,
                                    !.meditation_streak = streak,
                                    !.inventory = inventory],
         game_log |-> add_entry(game_log, log_message),
         result |-> ActionResult(TRUE, log_message,
                        WithLevelUp(effects, gained.ret.breakthrough, gained.self),
                        [hp |-> cost.hp, time |-> cost.time])]

ConsumePillAction_execute(action, character, game_log) ==
    IF ~can_execute(action, character) THEN Refused(action, character, game_log)
    ELSE
    LET cost == get_cost(action)
        paid == apply_cost(character, cost).self
        hp_recovery == int(get_talent_bonus(paid.talent, 15, "pill"))
        mp_recovery == int(get_talent_bonus(paid.talent, 15, "pill"))
        exp_gain == int(get_talent_bonus(paid.talent, 5, "pill"))
        healed == health_restore(paid.health, hp_recovery)
        restored == mana_restore(paid.mana, mp_recovery)
        gained == add_experience(paid.experience, exp_gain)
        log_message ==
            <<Msg("fuxiadanyao_huifu", "", <<healed.ret, restored.ret>>)>>
            \o (IF exp_gain > 0 THEN <<Msg("huode_jingyan", "", <<exp_gain>>)>>
                ELSE <<>>)
            \o (IF gained.ret.breakthrough THEN gained.ret.msg ELSE <<>>)
            \o Text(".")
        effects == [hp_recovery |-> healed.ret,
                    mp_recovery |-> restored.ret,
                    exp_gain |-> exp_gain]
    IN  [character |-> [paid EXCEPT !.health = healed.self,
                                    !.mana = restored.self,
                                    !.experience = gained.self,
                                    !.meditation_streak = 0],
         game_log |-> add_entry(game_log, log_message),
         result |-> ActionResult(TRUE, log_message,
                        WithLevelUp(effects, gained.ret.breakthrough, gained.self),
                        [pills |-> cost.pills])]

CultivateAction_execute(action, character, game_log) ==
    IF ~can_execute(action, character) THEN Refused(action, character, game_log)
    ELSE
    LET cost == get_cost(action)
        paid == apply_cost(character, cost).self
        exp_gain == int(get_talent_bonus(paid.talent, 12, "cultivate"))
        gained == add_experience(paid.experience, exp_gain)
        log_message ==
            <<Msg("yunzhuanxinfa_huode", "", <<exp_gain>>)>>
            \o (IF gained.ret.breakthrough THEN gained.ret.msg ELSE <<>>)
            \o Text(".")
        effects == [exp_gain |-> exp_gain]
    IN  [character |-> [paid EXCEPT !.experience = gained.self,
                                    !.meditation_streak = 0],
         game_log |-> add_entry(game_log, log_message),
         result |-> ActionResult(TRUE, log_message,
                        WithLevelUp(effects, gained.ret.breakthrough, gained.self),
                        [mp |-> cost.mp, time |-> cost.time])]

\* a mutant: waiting leaves the meditation streak as it was
WaitAction_execute_keeps_streak(action, character, game_log) ==
    IF ~can_execute(action, character) THEN Refused(action, character, game_log)
    ELSE
    LET cost == get_cost(action)
        paid == apply_cost(character, cost).self
        healed == health_restore(paid.health, 2)
        restored == mana_restore(paid.mana, 3)
        log_message ==
            <<Msg("jingxindengdai_huifu", "", <<healed.ret, restored.ret>>)>>
    IN  [character |-> [paid EXCEPT !.health = healed.self,
                                    !.mana = restored.self],
         game_log |-> add_entry(game_log, log_message),
         result |-> ActionResult(TRUE, log_message,
                        [hp_recovery |-> healed.ret, mp_recovery |-> restored.ret],
                        [hp |-> cost.hp, time |-> cost.time])]

\* a mutant: the wait restores first and pays afterwards
WaitAction_execute_restore_first(action, character, game_log) ==
    IF ~can_execute(action, character) THEN Refused(action, character, game_log)
    ELSE
    LET cost == get_cost(action)
        healed == health_restore(character.health, 2)
        restored == mana_restore(character.mana, 3)
        rested == [character EXCEPT !.health = healed.self,
                                    !.mana = restored.self,
                                    !.meditation_streak = 0]
        log_message ==
            <<Msg("jingxindengdai_huifu", "", <<healed.ret, restored.ret>>)>>
    IN  [character |-> apply_cost(rested, cost).self,
         game_log |-> add_entry(game_log, log_message),
         result |-> ActionResult(TRUE, log_message,
                        [hp_recovery |-> healed.ret, mp_recovery |-> restored.ret],
                        [hp |-> cost.hp, time |-> cost.time])]

WaitAction_execute(action, character, game_log) ==
    IF ~can_execute(action, character) THEN Refused(action, character, game_log)
    ELSE
    LET cost == get_cost(action)
        paid == apply_cost(character, cost).self
        hp_recovery == 2
        mp_recovery == 3
        healed == health_restore(paid.health, hp_recovery)
        restored == mana_restore(paid.mana, mp_recovery)
        log_message ==
            <<Msg("jingxindengdai_huifu", "", <<healed.ret, restored.ret>>)>>
    IN  [character |-> [paid EXCEPT !.health = healed.self,
                                    !.mana = restored.self,
                                    !.meditation_streak = 0],
         game_log |-> add_entry(game_log, log_message),
         result |-> ActionResult(TRUE, log_message,
                        [hp_recovery |-> healed.ret, mp_recovery |-> restored.ret],
                        [hp |-> cost.hp, time |-> cost.time])]

\* action.execute(character, game_log): the character and the log after the
\* call, and the ActionResult returned
execute(action, character, game_log) ==
    CASE action.class = "MeditateAction" ->
            MeditateAction_execute(action, character, game_log)
      [] action.class = "ConsumePillAction" ->
            ConsumePillAction_execute(action, character, game_log)
      [] action.class = "CultivateAction" ->
            CultivateAction_execute(action, character, game_log)
      [] action.class = "WaitAction" ->
            WaitAction_execute(action, character, game_log)

\* ActionFactory.get_all_actions()
get_all_actions == <<MeditateAction, ConsumePillAction, CultivateAction, WaitAction>>

\* a mutant: every action of the catalogue is listed, eligible or not
get_available_actions_unchecked(self) ==
    IF self.is_game_over \/ self.character = None THEN <<>>
    ELSE [i \in 1..Len(get_all_actions) |-> get_all_actions[i].name]

\* get_available_actions(); self.available_actions is get_all_actions()
get_available_actions(self) ==
    IF self.is_game_over \/ self.character = None THEN <<>>
    ELSE LET eligible(action) == can_execute(action, self.character[1])
             available == SelectSeq(get_all_actions, eligible)
         IN  [i \in 1..Len(available) |-> available[i].name]

\* a mutant: a name that matches nothing resolves to the first action
get_action_by_name_default(action_name) ==
    LET actions == get_all_actions
        hits == {i \in 1..Len(actions) : actions[i].name = action_name}
    IN  IF hits = {} THEN Some(actions[1])
        ELSE Some(actions[CHOOSE i \in hits : \A j \in hits : i <= j])

\* ActionFactory.get_action_by_name(action_name) -> Optional[Action]
get_action_by_name(action_name) ==
    LET actions == get_all_actions
        hits == {i \in 1..Len(actions) : actions[i].name = action_name}
    IN  IF hits = {} THEN None
        ELSE Some(actions[CHOOSE i \in hits : \A j \in hits : i <= j])

(***************************************************************************)
(* rules.py: GameRule.  The multipliers are in tenths.                     *)
(***************************************************************************)
meditation_rules ==
    [hp_cost |-> 1, base_mp_recovery |-> 8, base_exp_gain |-> 3, time_cost |-> 1,
     consecutive_bonus_interval |-> 5, consecutive_pill_bonus |-> 1]

pill_rules ==
    [base_hp_recovery |-> 15, base_mp_recovery |-> 15, base_exp_gain |-> 5,
     consume_cost |-> 1]

cultivation_rules == [mp_cost |-> 20, base_exp_gain |-> 12, time_cost |-> 2]

wait_rules == [hp_cost |-> 1, hp_recovery |-> 2, mp_recovery |-> 3, time_cost |-> 1]

rule_talent_multipliers == [meditate |-> 8, cultivate |-> 15, pill |-> 10, wait |-> 2]

\* calculate_talent_bonus(base_value, talent, action_type) = int(base_value + talent * multiplier)
calculate_talent_bonus(base_value, talent, action_type) ==
    LET multiplier == IF action_type \in DOMAIN rule_talent_multipliers
                      THEN rule_talent_multipliers[action_type]
                      ELSE 10
        bonus == talent * multiplier
    IN  int(base_value * 10 + bonus)

calculate_meditation_effects(character) ==
    LET talent == character.talent.base_talent
    IN  [hp_cost |-> meditation_rules.hp_cost,
         mp_recovery |-> calculate_talent_bonus(meditation_rules.base_mp_recovery,
                                                talent, "meditate"),
         exp_gain |-> calculate_talent_bonus(meditation_rules.base_exp_gain,
                                             talent, "meditate"),
         time_cost |-> meditation_rules.time_cost]

calculate_pill_effects(character) ==
    LET talent == character.talent.base_talent
    IN  [hp_recovery |-> calculate_talent_bonus(pill_rules.base_hp_recovery, talent, "pill"),
         mp_recovery |-> calculate_talent_bonus(pill_rules.base_mp_recovery, talent, "pill"),
         exp_gain |-> calculate_talent_bonus(pill_rules.base_exp_gain, talent, "pill"),
         consume_cost |-> pill_rules.consume_cost]

calculate_cultivation_effects(character) ==
    LET talent == character.talent.base_talent
    IN  [mp_cost |-> cultivation_rules.mp_cost,
         exp_gain |-> calculate_talent_bonus(cultivation_rules.base_exp_gain,
                                             talent, "cultivate"),
         time_cost |-> cultivation_rules.time_cost]

calculate_wait_effects(character) ==
    LET talent == character.talent.base_talent
    IN  [hp_cost |-> wait_rules.hp_cost,
         hp_recovery |-> calculate_talent_bonus(wait_rules.hp_recovery, talent, "wait"),
         mp_recovery |-> calculate_talent_bonus(wait_rules.mp_recovery, talent, "wait"),
         time_cost |-> wait_rules.time_cost]

(***************************************************************************)
(* rules.py: DifficultySettings                                            *)
(***************************************************************************)
difficulties ==
    [easy |-> [talent_range |-> <<5, 10>>, starting_pills |-> 3],
     normal |-> [talent_range |-> <<1, 10>>, starting_pills |-> 1],
     hard |-> [talent_range |-> <<1, 6>>, starting_pills |-> 0]]

\* a mutant: a difficulty that is not a preset is taken as hard
get_difficulty_settings_hard(difficulty) ==
    IF difficulty \in DOMAIN difficulties
    THEN difficulties[difficulty]
    ELSE difficulties["hard"]

get_difficulty_settings(difficulty) ==
    IF difficulty \in DOMAIN difficulties
    THEN difficulties[difficulty]
    ELSE difficulties["normal"]

\* apply_difficulty_to_character(character, difficulty): the character after
apply_difficulty_to_character(character, difficulty) ==
    LET settings == get_difficulty_settings(difficulty)
    IN  [character EXCEPT
            !.inventory = add_item(@, "pill", settings.starting_pills).self]

(***************************************************************************)
(* core/event_handler.py: EventType, EventListener, EventHandler.  A       *)
(* callback is what it does when called: it returns or it raises an        *)
(* Exception.  What a call does is its return value and whether an         *)
(* exception left it.                                                      *)
(***************************************************************************)
EventType ==
    {"GAME_START", "GAME_OVER", "ACTION_EXECUTED", "LEVEL_UP", "CHARACTER_DIED",
     "PILL_OBTAINED", "MEDITATION_STREAK", "ERROR_OCCURRED", "SAVE_GAME",
     "LOAD_GAME", "RESET_GAME"}

GameEvent(event_type, data) == [event_type |-> event_type, data |-> data]

EventListener(event_type, callback) ==
    [event_type |-> event_type, callback |-> callback, enabled |-> TRUE]

\* a mutant: an exception of the callback leaves handle_event
handle_event_unprotected(self, event) ==
    IF ~self.enabled THEN [ret |-> FALSE, raised |-> FALSE]
    ELSE IF self.callback = "raises" THEN [ret |-> FALSE, raised |-> TRUE]
    ELSE [ret |-> TRUE, raised |-> FALSE]

\* EventListener.handle_event(event) -> bool
handle_event(self, event) ==
    IF ~self.enabled THEN [ret |-> FALSE, raised |-> FALSE]
    ELSE IF self.callback = "raises" THEN [ret |-> FALSE, raised |-> FALSE]
    ELSE [ret |-> TRUE, raised |-> FALSE]

\* EventHandler(): no listeners, enabled
EventHandler == [listeners |-> [t \in EventType |-> <<>>], enabled |-> TRUE]

\* register_listener(event_type, callback), with the default priority
register_listener(self, event_type, callback) ==
    [self EXCEPT !.listeners[event_type] =
                     Append(@, EventListener(event_type, callback))]

\* dispatch_event(event_type, data) -> bool: the listeners of the type are
\* called in order until one lets an exception out
dispatch_event(self, event) ==
    IF ~self.enabled THEN [ret |-> FALSE, raised |-> FALSE]
    ELSE LET listeners == self.listeners[event.event_type]
             raising == {i \in 1..Len(listeners) :
                            handle_event(listeners[i], event).raised}
             handling == {i \in 1..Len(listeners) :
                            /\ handle_event(listeners[i], event).ret
                            /\ \A j \in raising : i < j}
         IN  [ret |-> raising = {} /\ handling # {}, raised |-> raising # {}]

(***************************************************************************)
(* core/game_core.py: GameCore                                             *)
(***************************************************************************)
\* GameCore(): no character and no log yet
GameCore ==
    [character |-> None,
     game_log |-> None,
     is_game_over |-> FALSE,
     difficulty |-> "normal"]

\* initialize_game(character_name, difficulty); talent_value is the number
\* the new character's TalentComponent draws
initialize_game(self, character_name, difficulty, talent_value) ==
    LET name == IF character_name = None \/ character_name = Some("")
                THEN "wumingxiushi"
                ELSE character_name[1]
        character == apply_difficulty_to_character(
                         CharacterStats(name, talent_value), difficulty)
        game_log == add_entry(
                        add_entry(GameLog, <<Msg("huanying", name, <<>>)>>),
                        <<Msg("nidezizhi", "", <<character.talent.base_talent>>)>>)
    IN  [self |-> [character |-> Some(character),
                   game_log |-> Some(game_log),
                   is_game_over |-> FALSE,
                   difficulty |-> difficulty],
         ret |-> TRUE]

\* a mutant: the terminal check sees death only
check_game_over_death_only(self) ==
    IF self.character = None THEN self
    ELSE IF ~is_alive(self.character[1])
    THEN [self EXCEPT
             !.is_game_over = TRUE,
             !.game_log = Some(add_entry(@[1], Text("xiulianshibai_youxijieshu")))]
    ELSE self

\* _check_game_over()
check_game_over(self) ==
    IF self.character = None THEN self
    ELSE IF ~is_alive(self.character[1])
    THEN [self EXCEPT
             !.is_game_over = TRUE,
             !.game_log = Some(add_entry(@[1], Text("xiulianshibai_youxijieshu")))]
    ELSE IF RealmValue[self.character[1].experience.current_realm] = "feisheng"
    THEN [self EXCEPT
             !.is_game_over = TRUE,
             !.game_log = Some(add_entry(@[1], Text("gongxi_chenggongfeisheng")))]
    ELSE self

GameEnded == ActionResult(FALSE, Text("youxiyijieshu"), EmptyDict, EmptyDict)

NotFound(action_name) ==
    ActionResult(FALSE, <<Msg("weizhaodaodongzuo", action_name, <<>>)>>,
                 EmptyDict, EmptyDict)

\* a mutant: a death is announced by GAME_OVER alone
check_game_over_dispatches_no_death(self) ==
    IF self.character = None THEN <<>>
    ELSE IF ~is_alive(self.character[1])
    THEN <<GameEvent("GAME_OVER", [reason |-> "character_died", victory |-> FALSE])>>
    ELSE IF RealmValue[self.character[1].experience.current_realm] = "feisheng"
    THEN <<GameEvent("GAME_OVER", [reason |-> "ascension", victory |-> TRUE])>>
    ELSE <<>>

\* the events _check_game_over dispatches, in order
check_game_over_dispatches(self) ==
    IF self.character = None THEN <<>>
    ELSE IF ~is_alive(self.character[1])
    THEN <<GameEvent("CHARACTER_DIED",
                     [character_name |-> self.character[1].name,
                      total_actions |-> self.character[1].total_actions]),
           GameEvent("GAME_OVER", [reason |-> "character_died", victory |-> FALSE])>>
    ELSE IF RealmValue[self.character[1].experience.current_realm] = "feisheng"
    THEN <<GameEvent("GAME_OVER", [reason |-> "ascension", victory |-> TRUE])>>
    ELSE <<>>

\* the events execute_action dispatches after action.execute, in order
action_dispatches(action_name, done) ==
    LET effects == done.result.effects
    IN  <<GameEvent("ACTION_EXECUTED",
                    [action |-> action_name, result |-> done.result])>>
        \o (IF "pill_bonus" \in DOMAIN effects /\ effects.pill_bonus > 0
            THEN <<GameEvent("PILL_OBTAINED",
                             [amount |-> effects.pill_bonus,
                              streak |-> done.character.meditation_streak])>>
            ELSE <<>>)
        \o (IF action_name = "dazuo" /\ done.character.meditation_streak % 5 = 0
            THEN <<GameEvent("MEDITATION_STREAK",
                             [streak |-> done.character.meditation_streak])>>
            ELSE <<>>)
        \o (IF "level_up" \in DOMAIN effects /\ effects.level_up
            THEN <<GameEvent("LEVEL_UP",
                             [new_level |-> effects.new_level,
                              action |-> action_name])>>
            ELSE <<>>)

ErrorResult ==
    ActionResult(FALSE, Text("zhixingdongzuoshichucuo"), EmptyDict, EmptyDict)

\* the try block of execute_action after action.execute returned done: the
\* engine after it, the dict returned and the events dispatched.  An
\* exception that leaves a dispatch ends the block in its except clause.
execute_action_dispatch(event_handler, self, action_name, done) ==
    LET executed == [self EXCEPT !.character = Some(done.character),
                                 !.game_log = Some(done.game_log)]
        before == action_dispatches(action_name, done)
        all == before \o check_game_over_dispatches(executed)
        raising == {i \in 1..Len(all) : dispatch_event(event_handler, all[i]).raised}
        first == CHOOSE i \in raising : \A j \in raising : i <= j
    IN  IF raising = {}
        THEN [self |-> check_game_over(executed), ret |-> done.result, events |-> all]
        ELSE [self |-> IF first <= Len(before) THEN executed
                       ELSE check_game_over(executed),
              ret |-> ErrorResult,
              events |-> SubSeq(all, 1, first)]

\* the try block of execute_action with the given event handler; the action
\* is executed once
execute_action_try(event_handler, self, action, action_name) ==
    CHOOSE tried \in {execute_action_dispatch(event_handler, self, action_name, done) :
                         done \in {execute(action, self.character[1], self.game_log[1])}} :
        TRUE

\* execute_action past its first check: the lookup, the eligibility check,
\* the execution and the terminal check
execute_action_resolve(self, action_name) ==
    LET action == get_action_by_name(action_name)
    IN  IF action = None
        THEN [self |-> self, ret |-> NotFound(action_name)]
        ELSE IF ~can_execute(action[1], self.character[1])
        THEN [self |-> self,
              ret |-> ActionResult(FALSE,
                          get_failure_message(action[1], self.character[1]),
                          EmptyDict, EmptyDict)]
        ELSE LET tried == execute_action_try(handler, self, action[1], action_name)
             IN  [self |-> tried.self, ret |-> tried.ret]

\* a mutant: no check of is_game_over before the lookup
execute_action_unguarded(self, action_name) ==
    IF self.character = None
    THEN [self |-> self, ret |-> GameEnded]
    ELSE execute_action_resolve(self, action_name)

\* execute_action(action_name): the engine after the call and the dict returned
execute_action(self, action_name) ==
    IF self.is_game_over \/ self.character = None
    THEN [self |-> self, ret |-> GameEnded]
    ELSE execute_action_resolve(self, action_name)

\* a mutant: the preview does not ask the action whether it can execute
simulate_action_unchecked(self, action_name) ==
    IF self.is_game_over \/ self.character = None
    THEN [self |-> self, ret |-> GameEnded]
    ELSE LET action == get_action_by_name(action_name)
         IN  IF action = None
             THEN [self |-> self, ret |-> NotFound(action_name)]
             ELSE [self |-> self,
                   ret |-> ActionResult(TRUE,
                               <<Msg("yuqizhixing", action[1].name, <<>>)>>,
                               EmptyDict, get_cost(action[1]))]

\* simulate_action(action_name): the engine after the call and the dict returned
simulate_action(self, action_name) ==
    IF self.is_game_over \/ self.character = None
    THEN [self |-> self, ret |-> GameEnded]
    ELSE LET action == get_action_by_name(action_name)
         IN  IF action = None
             THEN [self |-> self, ret |-> NotFound(action_name)]
             ELSE IF ~can_execute(action[1], self.character[1])
             THEN [self |-> self,
                   ret |-> ActionResult(FALSE,
                               get_failure_message(action[1], self.character[1]),
                               EmptyDict, EmptyDict)]
             ELSE [self |-> self,
                   ret |-> ActionResult(TRUE,
                               <<Msg("yuqizhixing", action[1].name, <<>>)>>,
                               EmptyDict, get_cost(action[1]))]

\* a mutant: a game that is over is not reset
reset_game_active_only(self, character_name, difficulty, talent_value) ==
    IF self.is_game_over
    THEN [self |-> self, ret |-> FALSE]
    ELSE initialize_game(self, character_name,
                         IF difficulty = None \/ difficulty = Some("")
                         THEN self.difficulty
                         ELSE difficulty[1],
                         talent_value)

\* the events execute_action dispatches, in order
execute_action_dispatches(self, action_name) ==
    LET action == get_action_by_name(action_name)
    IN  IF self.is_game_over \/ self.character = None THEN <<>>
        ELSE IF action = None THEN <<>>
        ELSE IF ~can_execute(action[1], self.character[1]) THEN <<>>
        ELSE execute_action_try(handler, self, action[1], action_name).events

\* the event initialize_game dispatches
initialize_game_dispatches(self) ==
    <<GameEvent("GAME_START",
                [character_name |-> self.character[1].name,
                 talent |-> self.character[1].talent.base_talent,
                 difficulty |-> self.difficulty])>>

\* reset_game(character_name, difficulty)
reset_game(self, character_name, difficulty, talent_value) ==
    initialize_game(self, character_name,
                    IF difficulty = None \/ difficulty = Some("")
                    THEN self.difficulty
                    ELSE difficulty[1],
                    talent_value)

\* save_game(slot): file is the dictionary written to the slot's file
save_game(self) ==
    IF self.character = None THEN [file |-> None, ret |-> FALSE]
    ELSE [file |-> Some([character |-> get_status_summary(self.character[1]),
                         game_log_entries |-> IF self.game_log # None
                                              THEN self.game_log[1].entries
                                              ELSE <<>>,
                         difficulty |-> self.difficulty,
                         is_game_over |-> self.is_game_over,
                         meditation_streak |-> self.character[1].meditation_streak,
                         total_actions |-> self.character[1].total_actions,
                         actions |-> self.character[1].total_actions,
                         version |-> "2.0.0"]),
          ret |-> TRUE]

\* dict.get(key) on a dictionary read from a file: None for a key it lacks
get(dict, key) == IF key \in DOMAIN dict THEN Some(dict[key]) ELSE None

\* json.load of a file save_game wrote, in the form load_game reads it: the
\* keys load_game looks up with .get, or that a save may lack, are optional
json_load(file) ==
    [version |-> file.version,
     character |-> [name |-> file.character.name,
                    hp |-> get(file.character, "hp"),
                    mp |-> file.character.mp,
                    pills |-> file.character.pills,
                    meditation_streak |-> file.character.meditation_streak,
                    total_actions |-> get(file.character, "total_actions"),
                    actions |-> get(file.character, "actions"),
                    realm |-> file.character.realm,
                    exp |-> file.character.exp,
                    total_exp |-> file.character.total_exp],
     difficulty |-> file.difficulty,
     game_log_entries |-> file.game_log_entries,
     is_game_over |-> get(file, "is_game_over")]

\* get_game_statistics(): the dictionary is built key by key, "total_actions"
\* first, and a key the summary lacks raises KeyError; power_level, computed
\* after the keys read from the summary, is left out
get_game_statistics(self) ==
    IF self.character = None THEN [ret |-> Some(EmptyDict), raised |-> None]
    ELSE LET status == get_status_summary(self.character[1])
         IN  IF "total_actions" \notin DOMAIN status
             THEN [ret |-> None, raised |-> Some("KeyError")]
             ELSE [ret |-> Some([total_actions |-> status.total_actions,
                                 total_experience |-> status.total_exp,
                                 current_realm |-> status.realm,
                                 talent |-> status.talent,
                                 pills_used |-> Max(0, status.total_actions - status.pills),
                                 max_meditation_streak |-> status.meditation_streak,
                                 difficulty |-> self.difficulty]),
                   raised |-> None]

\* load_game: the map from a saved realm value to the member
realm_map ==
    [value \in {RealmValue[r] : r \in RealmLevel} |->
        CHOOSE r \in RealmLevel : RealmValue[r] = value]

\* a mutant: the version is looked at after the game was re-initialised
load_game_version_checked_late(self, save_file, talent_value) ==
    IF save_file = None THEN [self |-> self, ret |-> FALSE]
    ELSE [self |-> initialize_game(self, Some(save_file[1].character.name),
                                   save_file[1].difficulty, talent_value).self,
          ret |-> save_file[1].version = "2.0.0"]

\* load_game(slot); save_file is what saves/save_slot_<slot>.json holds (None:
\* no such file), a key a save lacks is None, talent_value is the number the
\* re-initialised character's TalentComponent draws
load_game(self, save_file, talent_value) ==
    IF save_file = None THEN [self |-> self, ret |-> FALSE]
    ELSE IF save_file[1].version # "2.0.0" THEN [self |-> self, ret |-> FALSE]
    ELSE
    LET save_data == save_file[1]
        character_data == save_data.character
        initialised == initialize_game(self, Some(character_data.name),
                                       save_data.difficulty, talent_value).self
        fresh == initialised.character[1]
        total_actions ==
            IF character_data.total_actions # None /\ character_data.total_actions # Some(0)
            THEN character_data.total_actions[1]
            ELSE IF character_data.actions # None THEN character_data.actions[1]
                 ELSE 0
        restored ==
            [fresh EXCEPT
                !.health.current_hp = character_data.hp[1],
                !.mana.current_mp = character_data.mp,
                !.inventory = add_item(@, "pill",
                                  character_data.pills - get_item_count(@, "pill")).self,
                !.meditation_streak = character_data.meditation_streak,
                !.total_actions = total_actions]
        character ==
            IF character_data.realm \in DOMAIN realm_map
            THEN [restored EXCEPT
                     !.experience.current_realm = realm_map[character_data.realm],
                     !.experience.current_level_experience = character_data.exp,
                     !.experience.total_experience = character_data.total_exp]
            ELSE restored
        game_log ==
            IF save_data.game_log_entries # <<>>
            THEN [initialised.game_log[1] EXCEPT !.entries = save_data.game_log_entries]
            ELSE initialised.game_log[1]
        loaded == [initialised EXCEPT !.character = Some(character),
                                      !.game_log = Some(game_log)]
    IN  IF character_data.hp = None
        THEN [self |-> initialised, ret |-> FALSE]
        ELSE IF save_data.is_game_over = None
        THEN [self |-> loaded, ret |-> FALSE]
        ELSE [self |-> [loaded EXCEPT !.is_game_over = save_data.is_game_over[1]],
              ret |-> TRUE]

\* the event load_game dispatches, through initialize_game
load_game_dispatches(self, save_file, talent_value) ==
    IF save_file = None THEN <<>>
    ELSE IF save_file[1].version # "2.0.0" THEN <<>>
    ELSE initialize_game_dispatches(
             initialize_game(self, Some(save_file[1].character.name),
                             save_file[1].difficulty, talent_value).self)

(***************************************************************************)
(* core/state_manager.py.  A history entry is kept without its timestamp. *)
(***************************************************************************)
StateManager == [current_state |-> EmptyDict, state_history |-> <<>>,
                 max_history_size |-> 50]

\* a mutant: the history is never cut
add_to_history_unlimited(self, state) ==
    [self EXCEPT !.state_history = Append(@, [state |-> state])]

\* _add_to_history(state)
add_to_history(self, state) ==
    LET appended == Append(self.state_history, [state |-> state])
    IN  [self EXCEPT !.state_history =
            IF Len(appended) > self.max_history_size THEN Tail(appended) ELSE appended]

\* update_state(new_state)
update_state(self, new_state) ==
    LET saved == IF DOMAIN self.current_state # {}
                 THEN add_to_history(self, self.current_state)
                 ELSE self
    IN  [saved EXCEPT !.current_state = new_state]

\* get_previous_state(steps_back), steps_back >= 1:
\* state_history[-steps_back]["state"]
get_previous_state(self, steps_back) ==
    IF Len(self.state_history) >= steps_back
    THEN Some(self.state_history[Len(self.state_history) - steps_back + 1].state)
    ELSE None

\* rollback_state(steps_back) -> bool
rollback_state(self, steps_back) ==
    LET previous_state == get_previous_state(self, steps_back)
    IN  IF previous_state # None /\ DOMAIN previous_state[1] # {}
        THEN [self |-> [self EXCEPT
                           !.current_state = previous_state[1],
                           !.state_history =
                               SubSeq(@, 1, Max(0, Len(@) - steps_back))],
              ret |-> TRUE]
        ELSE [self |-> self, ret |-> FALSE]

(***************************************************************************)
(* core/action_registry.py.  A dict is a function on its keys; of an      *)
(* ActionInfo the fields the registry reads are kept.                      *)
(***************************************************************************)
Put(dict, key, value) ==
    [k \in DOMAIN dict \cup {key} |-> IF k = key THEN value ELSE dict[k]]

Del(dict, key) == [k \in DOMAIN dict \ {key} |-> dict[k]]

ActionInfo(action_id, category, sort_order, enabled) ==
    [action_id |-> action_id, category |-> category,
     sort_order |-> sort_order, enabled |-> enabled]

ActionRegistry == [actions |-> EmptyDict, action_info |-> EmptyDict,
                   categories |-> EmptyDict]

\* list.remove(value): the first occurrence
Remove(list, value) ==
    LET i == CHOOSE i \in 1..Len(list) :
                 list[i] = value /\ \A j \in 1..(i - 1) : list[j] # value
    IN  SubSeq(list, 1, i - 1) \o SubSeq(list, i + 1, Len(list))

\* register_action(action_id, action_class, category=, sort_order=, enabled=)
register_action(self, action_id, action_class, category, sort_order, enabled) ==
    LET info == ActionInfo(action_id, category, sort_order, enabled)
        listed == IF category \notin DOMAIN self.categories
                  THEN Put(self.categories, category, <<>>)
                  ELSE self.categories
        categories == IF \A i \in 1..Len(listed[category]) : listed[category][i] # action_id
                      THEN [listed EXCEPT ![category] = Append(@, action_id)]
                      ELSE listed
    IN  [self |-> [actions |-> Put(self.actions, action_id, action_class),
                   action_info |-> Put(self.action_info, action_id, info),
                   categories |-> categories],
         ret |-> TRUE]

\* unregister_action(action_id) -> bool
unregister_action(self, action_id) ==
    IF action_id \in DOMAIN self.actions
    THEN LET category == self.action_info[action_id].category
         IN  [self |-> [actions |-> Del(self.actions, action_id),
                        action_info |-> Del(self.action_info, action_id),
                        categories |->
                            IF /\ category \in DOMAIN self.categories
                               /\ \E i \in 1..Len(self.categories[category]) :
                                      self.categories[category][i] = action_id
                            THEN [self.categories EXCEPT
                                     ![category] = Remove(@, action_id)]
                            ELSE self.categories],
              ret |-> TRUE]
    ELSE [self |-> self, ret |-> FALSE]

\* enable_action(action_id) and disable_action(action_id) -> bool
set_enabled(self, action_id, enabled) ==
    IF action_id \in DOMAIN self.action_info
    THEN [self |-> [self EXCEPT !.action_info[action_id].enabled = enabled],
          ret |-> TRUE]
    ELSE [self |-> self, ret |-> FALSE]

\* self.action_info.get(x, ActionInfo("", "", ""))
info_or_default(self, action_id) ==
    IF action_id \in DOMAIN self.action_info THEN self.action_info[action_id]
    ELSE ActionInfo("", "game", 0, TRUE)

\* list.sort(key=sort_order): stable, an id goes behind those of its key
RECURSIVE sort_by_order(_, _)
sort_by_order(self, action_ids) ==
    IF action_ids = <<>> THEN <<>>
    ELSE LET n == Len(action_ids)
             last == action_ids[n]
             front == sort_by_order(self, SubSeq(action_ids, 1, n - 1))
             key(x) == info_or_default(self, x).sort_order
             ahead == {i \in 1..Len(front) : key(front[i]) <= key(last)}
             m == Cardinality(ahead)
         IN  SubSeq(front, 1, m) \o <<last>> \o SubSeq(front, m + 1, Len(front))

\* get_actions_by_category(category): the list of the category is sorted in
\* place, and its enabled ids returned
get_actions_by_category(self, category) ==
    IF category \notin DOMAIN self.categories THEN [self |-> self, ret |-> <<>>]
    ELSE LET action_ids == sort_by_order(self, self.categories[category])
             enabled(x) == info_or_default(self, x).enabled
         IN  [self |-> [self EXCEPT !.categories[category] = action_ids],
              ret |-> SelectSeq(action_ids, enabled)]

(***************************************************************************)
(* actions/system_actions.py: GameSaveManager, SaveGameAction and          *)
(* LoadGameAction; application.py: GameApplication.  The application owns  *)
(* the engine (game_core) and its own counters; the wall-clock fields      *)
(* (start_time, timestamp, save_time, session_time) are left out.  Both    *)
(* GameCore.save_game(slot) and GameSaveManager write                      *)
(* saves/save_slot_<slot>.json.                                            *)
(***************************************************************************)
GameApplication == [total_actions |-> 0, session_statistics |-> EmptyDict]

\* _generate_save_data(app_context)
generate_save_data(app_context, game_core) ==
    [version |-> "2.0",
     game_core |-> [character |-> IF game_core.character # None
                                  THEN Some(get_status_summary(game_core.character[1]))
                                  ELSE None,
                    difficulty |-> game_core.difficulty,
                    is_game_over |-> game_core.is_game_over],
     application |-> [total_actions |-> app_context.total_actions,
                      session_statistics |-> app_context.session_statistics]]

\* GameSaveManager.save_game(app_context, slot): file is what the slot's file holds
GameSaveManager_save_game(app_context, game_core, slot) ==
    LET save_data == generate_save_data(app_context, game_core)
    IN  [file |-> Some(save_data),
         ret |-> [success |-> TRUE,
                  message |-> <<Msg("youxiyibaocundaocaowei", "", <<slot>>)>>,
                  save_data |-> Some(save_data)]]

\* GameSaveManager.load_game(app_context, slot); save_file is what the slot's
\* file holds (None: no such file)
GameSaveManager_load_game(save_file, slot) ==
    IF save_file = None
    THEN [success |-> FALSE, message |-> <<Msg("caoweimeiyoucundang", "", <<slot>>)>>,
          save_data |-> None]
    ELSE IF save_file[1].version # "2.0"
    THEN [success |-> FALSE,
          message |-> <<Msg("cundangbanbenbujianrong", save_file[1].version, <<>>)>>,
          save_data |-> save_file]
    ELSE [success |-> TRUE, message |-> <<Msg("cundangwenjianduquchenggong", "", <<slot>>)>>,
          save_data |-> save_file]

\* _log_action(action_name, success, message, extra_data): the event
log_action(action_name, success, message) ==
    GameEvent("ACTION_EXECUTED",
              [action |-> action_name, success |-> success, message |-> message,
               action_type |-> "system"])

\* SaveGameAction(slot).execute_system_action(app_context)
SaveGameAction_execute_system_action(app_context, game_core, slot) ==
    LET save_result == GameSaveManager_save_game(app_context, game_core, slot).ret
        save_file == GameSaveManager_save_game(app_context, game_core, slot).file
    IN  [app |-> app_context,
         game_core |-> game_core,
         file |-> save_file,
         events |-> <<GameEvent("SAVE_GAME", [slot |-> slot]),
                      log_action("save_game", TRUE, save_result.message)>>,
         ret |-> ActionResult(TRUE, save_result.message,
                              [game_saved |-> TRUE, slot |-> slot], [time |-> 1])]

\* LoadGameAction(slot).execute_system_action(app_context); save_file is what
\* the slot's file holds.  The character of the save is not read.
LoadGameAction_execute_system_action(app_context, game_core, save_file, slot) ==
    LET load_result == GameSaveManager_load_game(save_file, slot)
    IN  IF load_result.success
        THEN LET save_data == load_result.save_data[1]
             IN  [app |-> [app_context EXCEPT
                              !.total_actions = save_data.application.total_actions,
                              !.session_statistics =
                                  save_data.application.session_statistics],
                  game_core |-> [game_core EXCEPT
                                    !.difficulty = save_data.game_core.difficulty,
                                    !.is_game_over = save_data.game_core.is_game_over],
                  file |-> save_file,
                  events |-> <<GameEvent("LOAD_GAME", [slot |-> slot]),
                               log_action("load_game", TRUE, load_result.message)>>,
                  ret |-> ActionResult(TRUE, load_result.message,
                                       [game_loaded |-> TRUE, slot |-> slot],
                                       [time |-> 2])]
        ELSE [app |-> app_context,
              game_core |-> game_core,
              file |-> save_file,
              events |-> <<log_action("load_game", FALSE, load_result.message)>>,
              ret |-> ActionResult(FALSE, load_result.message, EmptyDict, [time |-> 2])]

\* SystemActionFactory.is_system_action(action_name), for the two actions of the slot
is_system_action(action_name) == action_name \in {"save_game", "load_game"}

\* GameApplication._execute_action(action_name): a system action runs on the
\* application with the default slot 1, a game action on the engine; a
\* success is counted and the outcome dispatched
application_execute_action(app_context, game_core, save_file, action_name, done) ==
    LET result == done.ret
        counted == IF result.success
                   THEN [done.app EXCEPT !.total_actions = @ + 1]
                   ELSE done.app
    IN  [app |-> counted,
         game_core |-> done.game_core,
         file |-> done.file,
         events |-> Append(done.events,
                           GameEvent("ACTION_EXECUTED",
                                     [action |-> action_name,
                                      success |-> result.success,
                                      total_actions |-> counted.total_actions,
                                      action_type |-> IF is_system_action(action_name)
                                                      THEN "system" ELSE "game"])),
         ret |-> result]

\* the action _execute_action runs, by its name
application_run(app_context, game_core, save_file, action_name) ==
    IF action_name = "save_game"
    THEN SaveGameAction_execute_system_action(app_context, game_core, 1)
    ELSE IF action_name = "load_game"
    THEN LoadGameAction_execute_system_action(app_context, game_core, save_file, 1)
    ELSE IF game_core.character = None \/ game_core.is_game_over
    THEN [app |-> app_context, game_core |-> game_core, file |-> save_file,
          events |-> <<>>,
          ret |-> ActionResult(FALSE, <<Msg("youxiweikaishihuoyijieshu", "", <<>>)>>,
                               EmptyDict, EmptyDict)]
    ELSE CHOOSE outcome \in
            {[app |-> app_context, game_core |-> executed.self, file |-> save_file,
              events |-> execute_action_dispatches(game_core, action_name),
              ret |-> executed.ret] :
                executed \in {execute_action(game_core, action_name)}} : TRUE

execute_action_of_application(app_context, game_core, save_file, action_name) ==
    CHOOSE outcome \in
        {application_execute_action(app_context, game_core, save_file, action_name, done) :
            done \in {application_run(app_context, game_core, save_file, action_name)}} :
        TRUE

(***************************************************************************)
(* The engine and its caller.  The caller initialises a game and then     *)
(* either makes up to MaxCalls calls of its own choice, or first plays by *)
(* a plan (meditate only; or meditate in fives, cultivate while the mana  *)
(* lasts, take a pill when hurt) and leaves the plan for calls of its own *)
(* choice near a death, near a breakthrough or at the end of the game.    *)
(***************************************************************************)
MaxCalls == 4
NearDeath == 2
NearBreakthrough == 10

\* the talents drawn when a game replaces another, and those a plan is played with
SampleTalents == {1, 10}

CharacterNames == {None, Some("ceshi")}

DifficultyNames == {"easy", "normal", "hard", "nightmare"}

ActionNames ==
    {"dazuo", "chidanyao", "xiulian", "dengdai",
     "meditate", "consume_pill", "cultivate", "wait", "bucunzaidedongzuo"}

Caller == [plan |-> "free", calls |-> 0]

NoCall == [op |-> "none", args |-> <<>>]

\* the action name the plan calls next
Planned(plan, self) ==
    LET character == self.character[1]
    IN  IF plan = "meditate" THEN "dazuo"
        ELSE IF character.meditation_streak % 5 # 0 THEN "dazuo"
        ELSE IF character.mana.current_mp >= 20 THEN "xiulian"
        ELSE IF /\ get_item_count(character.inventory, "pill") > 0
                /\ character.health.current_hp <= 60
             THEN "chidanyao"
             ELSE "dazuo"

\* where the caller may leave its plan
SwitchPoint(self) ==
    \/ self.is_game_over
    \/ LET character == self.character[1]
       IN  \/ character.health.current_hp <= NearDeath
           \/ ~Less(character.experience.current_level_experience
                        + NearBreakthrough,
                    realm_thresholds[character.experience.current_realm])

Init ==
    /\ core = GameCore
    /\ caller = Caller
    /\ call = NoCall
    /\ ret = None
    /\ experience = ExperienceComponent
    /\ handler = EventHandler
    /\ events = <<>>
    /\ saves = None
    /\ manager = StateManager
    /\ registry = ActionRegistry
    /\ app = GameApplication

InitializeGame(character_name, difficulty, talent_value, plan) ==
    /\ caller.plan = "free"
    /\ caller.calls < MaxCalls
    /\ core.character # None => talent_value \in SampleTalents
    /\ plan # "free" =>
        /\ core.character = None
        /\ talent_value \in SampleTalents
        /\ character_name = None
        /\ difficulty = "normal"
    /\ LET r == initialize_game(core, character_name, difficulty, talent_value)
       IN  /\ core' = r.self
           /\ ret' = Some(r.ret)
    /\ call' = [op |-> "initialize_game", args |-> <<character_name, difficulty>>]
    /\ caller' = [plan |-> plan, calls |-> caller.calls + 1]
    /\ events' = initialize_game_dispatches(core')
    /\ UNCHANGED <<experience, handler, saves, manager, registry, app>>

ExecuteAction(action_name) ==
    \E r \in {execute_action(core, action_name)} :
        /\ \/ /\ caller.plan = "free"
              /\ caller.calls < MaxCalls
              /\ caller' = [caller EXCEPT !.calls = @ + 1]
           \/ /\ caller.plan # "free"
              /\ action_name = Planned(caller.plan, core)
              /\ \/ ~r.self.is_game_over /\ caller' = caller
                 \/ SwitchPoint(r.self) /\ caller' = [caller EXCEPT !.plan = "free"]
        /\ core' = r.self
        /\ ret' = Some(r.ret)
        /\ call' = [op |-> "execute_action", args |-> <<action_name>>]
        /\ events' = execute_action_dispatches(core, action_name)
        /\ UNCHANGED <<experience, handler, saves, manager, registry, app>>

ResetGame(character_name, difficulty, talent_value) ==
    /\ caller.plan = "free"
    /\ caller.calls < MaxCalls
    /\ talent_value \in SampleTalents
    /\ LET r == reset_game(core, character_name, difficulty, talent_value)
       IN  /\ core' = r.self
           /\ ret' = Some(r.ret)
    /\ call' = [op |-> "reset_game", args |-> <<character_name, difficulty>>]
    /\ caller' = [caller EXCEPT !.calls = @ + 1]
    /\ events' = initialize_game_dispatches(core')
    /\ UNCHANGED <<experience, handler, saves, manager, registry, app>>

Next ==
    \/ \E character_name \in CharacterNames, difficulty \in DifficultyNames,
          talent_value \in TalentRange, plan \in {"free", "meditate", "ascend"} :
            InitializeGame(character_name, difficulty, talent_value, plan)
    \/ \E action_name \in ActionNames : ExecuteAction(action_name)
    \/ \E character_name \in CharacterNames,
          difficulty \in {None} \cup {Some(d) : d \in DifficultyNames},
          talent_value \in TalentRange :
            ResetGame(character_name, difficulty, talent_value)

Spec == Init /\ [][Next]_vars

(***************************************************************************)
(* The engine with save files.  A file in saves/ is whatever was put      *)
(* there: load_game checks its version and nothing else.                   *)
(***************************************************************************)
SaveFile(version, hp, mp, pills, realm, exp, is_game_over) ==
    [version |-> version,
     character |-> [name |-> "ceshi", hp |-> hp, mp |-> mp, pills |-> pills,
                    meditation_streak |-> 0,
                    total_actions |-> None, actions |-> None,
                    realm |-> realm, exp |-> exp, total_exp |-> exp],
     difficulty |-> "normal",
     game_log_entries |-> <<<<Msg("huanying", "ceshi", <<>>)>>>>,
     is_game_over |-> is_game_over]

SaveFiles ==
    {None,
     Some(SaveFile("1.0.0", Some(50), 100, 2, "lianqiqi", 90, Some(FALSE))),
     Some(SaveFile("2.0.0", Some(50), 100, 2, "weizhijingjie", 90, Some(FALSE))),
     Some(SaveFile("2.0.0", None, 100, 2, "lianqiqi", 90, Some(FALSE))),
     Some(SaveFile("2.0.0", Some(50), 100, 2, "lianqiqi", 90, None))}
    \cup {Some(SaveFile("2.0.0", Some(hp), resources[1], resources[2], "lianqiqi", 90,
                        Some(is_game_over))) :
            hp \in {0, 50}, resources \in {<<10, 0>>, <<100, 2>>},
            is_game_over \in BOOLEAN}

LoadGame(save_file, talent_value) ==
    /\ caller.plan = "free"
    /\ caller.calls < MaxCalls
    /\ talent_value \in SampleTalents
    /\ LET r == load_game(core, save_file, talent_value)
       IN  /\ core' = r.self
           /\ ret' = Some(r.ret)
    /\ call' = [op |-> "load_game", args |-> <<save_file>>]
    /\ caller' = [caller EXCEPT !.calls = @ + 1]
    /\ events' = load_game_dispatches(core, save_file, talent_value)
    /\ UNCHANGED <<experience, handler, saves, manager, registry, app>>

\* the caller makes calls of its own choice only
NextLoad ==
    \/ \E character_name \in CharacterNames, difficulty \in DifficultyNames,
          talent_value \in TalentRange :
            InitializeGame(character_name, difficulty, talent_value, "free")
    \/ \E action_name \in ActionNames : ExecuteAction(action_name)
    \/ \E character_name \in CharacterNames,
          difficulty \in {None} \cup {Some(d) : d \in DifficultyNames},
          talent_value \in TalentRange :
            ResetGame(character_name, difficulty, talent_value)
    \/ \E save_file \in SaveFiles, talent_value \in TalentRange :
            LoadGame(save_file, talent_value)

SpecLoad == Init /\ [][NextLoad]_vars

(***************************************************************************)
(* Properties of the engine (under Spec)                                  *)
(***************************************************************************)
Initialised == core.character # None

\* the engine is past the first check of execute_action
Active == Initialised /\ ~core.is_game_over

Hp == core.character[1].health.current_hp
Mp == core.character[1].mana.current_mp
Pills == core.character[1].inventory.items["pill"]
Realm == core.character[1].experience.current_realm
LogEntries == core.game_log[1].entries

Executes == call'.op = "execute_action"
Name == call'.args[1]

Catalogued == {"dazuo", "chidanyao", "xiulian", "dengdai"}

\* C1: after initialize_game (any difficulty, any talent in 1..10) and after
\* every execute_action call, whatever the name and whether it succeeds,
\* 0 <= hp <= 100 and 0 <= mp <= 100.
C1_HealthAndManaInBounds ==
    Initialised =>
        /\ 0 <= Hp /\ Hp <= 100
        /\ 0 <= Mp /\ Mp <= 100

\* a pill taken at full health: the restore is cut at the maximum
C1_Witness ==
    /\ Initialised
    /\ call.op = "execute_action" /\ call.args = <<"chidanyao">>
    /\ ret[1].success
    /\ ret[1].effects.hp_recovery = 0
    /\ Hp = 100

\* C2: in every state reached through initialize_game, execute_action and
\* reset_game, is_game_over holds iff hp is 0 or the tier is Ascension; a
\* meditate executed at hp = 1 leaves hp = 0 and is_game_over true, with the
\* failure line appended to the log.
C2_GameOverIffDeadOrAscended ==
    [][/\ core'.character # None =>
            (core'.is_game_over <=>
                \/ core'.character[1].health.current_hp = 0
                \/ core'.character[1].experience.current_realm = "ASCENSION")
       /\ (Executes /\ Name = "dazuo" /\ Active /\ Hp = 1) =>
            /\ core'.character[1].health.current_hp = 0
            /\ core'.is_game_over
            /\ core'.game_log[1].entries[Len(core'.game_log[1].entries)]
                   = Text("xiulianshibai_youxijieshu")
    ]_vars

C2_Witness ==
    /\ Initialised
    /\ call.op = "execute_action" /\ call.args = <<"dazuo">>
    /\ ret[1].success
    /\ Hp = 0
    /\ core.is_game_over
    /\ LogEntries[Len(LogEntries)] = Text("xiulianshibai_youxijieshu")

\* the other way a game ends: the tier reaches Ascension
ReachesAscension ==
    /\ Initialised
    /\ Realm = "ASCENSION"
    /\ core.is_game_over
    /\ LogEntries[Len(LogEntries)] = Text("gongxi_chenggongfeisheng")

\* C3: once is_game_over is true, or while no character is initialised, every
\* execute_action call, for a known or an unknown name, returns success =
\* false with the game-ended message and empty effects and costs, and leaves
\* the character, the log and is_game_over unchanged; only reset_game or
\* initialize_game ends this.
C3_GameOverIsAbsorbing ==
    [][/\ (Executes /\ ~Active) =>
            /\ ret' = Some([success |-> FALSE,
                            message |-> Text("youxiyijieshu"),
                            effects |-> EmptyDict,
                            costs |-> EmptyDict])
            /\ core' = core
       /\ (core.is_game_over /\ ~core'.is_game_over) =>
            call'.op \in {"reset_game", "initialize_game"}
    ]_vars

\* an action of the catalogue refused after the character died
C3_Witness ==
    /\ Initialised
    /\ core.is_game_over
    /\ Hp = 0
    /\ call.op = "execute_action" /\ call.args = <<"dengdai">>
    /\ ret = Some(GameEnded)

\* the reason an action of the catalogue gives for refusing
Reason(action_name, dead) ==
    IF dead
    THEN IF action_name \in {"chidanyao", "xiulian"}
         THEN Text("niyijingwufaxingdong")
         ELSE <<Msg("wufazhixing", action_name, <<>>)>>
    ELSE IF action_name = "xiulian" THEN Text("xianlibuzu_wufaxiulian")
         ELSE Text("meiyoudanyaokeyong")

DeadCharacterRefused ==
    /\ Active
    /\ Hp = 0
    /\ call.op = "execute_action" /\ call.args = <<"dazuo">>
    /\ ret = Some([success |-> FALSE,
                   message |-> <<Msg("wufazhixing", "dazuo", <<>>)>>,
                   effects |-> EmptyDict,
                   costs |-> EmptyDict])

\* C5: on an engine past its game-over check, execute_action with a name that
\* is not in the catalogue returns success = false with a message naming the
\* unresolved action, empty effects and costs, and changes nothing of the
\* character, the log and the engine.
C5_UnknownActionChangesNothing ==
    [][(Executes /\ Active /\ Name \notin Catalogued) =>
            /\ ret' = Some([success |-> FALSE,
                            message |-> <<Msg("weizhaodaodongzuo", Name, <<>>)>>,
                            effects |-> EmptyDict,
                            costs |-> EmptyDict])
            /\ core' = core
    ]_vars

C5_Witness ==
    /\ Active
    /\ call.op = "execute_action" /\ call.args = <<"bucunzaidedongzuo">>
    /\ ret[1].message = <<Msg("weizhaodaodongzuo", "bucunzaidedongzuo", <<>>)>>
    /\ ~ret[1].success

\* C6: the catalogue resolves the identifiers meditate, consume_pill,
\* cultivate and wait to the Meditate, ConsumePill, Cultivate and Wait
\* actions, so that on a freshly initialised game execute_action("meditate")
\* succeeds and sets meditation_streak to 1.
C6_StableIdentifiersResolve ==
    [][/\ (Executes /\ Active /\ Name = "meditate") =>
            get_action_by_name(Name) = Some(MeditateAction)
       /\ (Executes /\ Active /\ Name = "consume_pill") =>
            get_action_by_name(Name) = Some(ConsumePillAction)
       /\ (Executes /\ Active /\ Name = "cultivate") =>
            get_action_by_name(Name) = Some(CultivateAction)
       /\ (Executes /\ Active /\ Name = "wait") =>
            get_action_by_name(Name) = Some(WaitAction)
       /\ (/\ Executes /\ Name = "meditate"
           /\ call.op \in {"initialize_game", "reset_game"}) =>
            /\ ret'[1].success
            /\ core'.character[1].meditation_streak = 1
    ]_vars

(***************************************************************************)
(* The ExperienceComponent on its own: constructed, then fed amounts.     *)
(***************************************************************************)
MaxTotalExperience == 3400

Amounts == {0, 5, 10, 95, 100, 150, 300, 1600, 3100}

InitExp ==
    /\ experience = ExperienceComponent
    /\ call = NoCall
    /\ ret = None
    /\ core = GameCore
    /\ caller = Caller
    /\ handler = EventHandler
    /\ events = <<>>
    /\ saves = None
    /\ manager = StateManager
    /\ registry = ActionRegistry
    /\ app = GameApplication

NewExperienceComponent ==
    /\ experience' = ExperienceComponent
    /\ call' = [op |-> "ExperienceComponent", args |-> <<>>]
    /\ ret' = None
    /\ UNCHANGED <<core, caller, handler, events, saves, manager, registry, app>>

AddExperience(amount) ==
    /\ experience.total_experience + amount <= MaxTotalExperience
    /\ LET r == add_experience(experience, amount)
       IN  /\ experience' = r.self
           /\ ret' = Some(r.ret)
    /\ call' = [op |-> "add_experience", args |-> <<amount>>]
    /\ UNCHANGED <<core, caller, handler, events, saves, manager, registry, app>>

NextExp ==
    \/ NewExperienceComponent
    \/ \E amount \in Amounts : AddExperience(amount)

SpecExp == InitExp /\ [][NextExp]_vars

C9_MultipleBreakthroughs ==
    (/\ call.op = "add_experience" /\ call.args = <<300>>
     /\ experience.total_experience = 300)
    => /\ experience.current_realm = "CORE_FORMATION"
       /\ experience.current_level_experience = 0

\* C10: right after an add_experience call that reported a breakthrough the
\* level experience is below the threshold of the new tier.
C10_BelowThresholdAfterBreakthrough ==
    (call.op = "add_experience" /\ ret[1].breakthrough)
    => Less(experience.current_level_experience,
            realm_thresholds[experience.current_realm])

(***************************************************************************)
(* Properties of play: progress, the meditation streak, the effects        *)
(* reported (under Spec)                                                   *)
(***************************************************************************)
TotalExp == core.character[1].experience.total_experience
Streak == core.character[1].meditation_streak
Succeeds == ret'[1].success
Effects == ret'[1].effects

\* C11: across execute_action calls total_experience never decreases, the
\* tier never moves to a lower tier, and a tier of Ascension is never left.
C11_ProgressNeverRegresses ==
    [][(Executes /\ Initialised) =>
          /\ core'.character[1].experience.total_experience >= TotalExp
          /\ RealmIndex(core'.character[1].experience.current_realm)
                >= RealmIndex(Realm)
          /\ Realm = "ASCENSION" =>
                core'.character[1].experience.current_realm = "ASCENSION"
    ]_vars

\* a call that advanced the tier, with the total carried over the breakthrough
C11_Witness ==
    /\ Initialised
    /\ call.op = "execute_action"
    /\ ret[1].success
    /\ "level_up" \in DOMAIN ret[1].effects
    /\ Realm = "FOUNDATION"
    /\ TotalExp >= 100

StreakAfter == core'.character[1].meditation_streak
PillsAfter == core'.character[1].inventory.items["pill"]

\* C12: meditation_streak is 0 after every successful consume-pill, cultivate
\* or wait, grows by exactly 1 on every successful meditate, is unchanged by
\* every failed action, and never decreases except by being reset to 0.
C12_MeditationStreak ==
    [][(Executes /\ Initialised) =>
          /\ (Succeeds /\ Name \in {"chidanyao", "xiulian", "dengdai"}) =>
                StreakAfter = 0
          /\ (Succeeds /\ Name = "dazuo") => StreakAfter = Streak + 1
          /\ ~Succeeds => StreakAfter = Streak
          /\ StreakAfter >= Streak \/ StreakAfter = 0
    ]_vars

\* a wait that succeeded right after a meditate: the streak is back at 0
C12_Witness ==
    /\ Initialised
    /\ call.op = "execute_action" /\ call.args = <<"dengdai">>
    /\ ret[1].success
    /\ Streak = 0
    /\ Len(LogEntries) >= 2
    /\ LogEntries[Len(LogEntries) - 1][1].text = "dazuo_huifu_huode"

Talent == core.character[1].talent.base_talent

\* the character is the one initialize_game (or reset_game) has just made
Fresh == Initialised /\ call.op \in {"initialize_game", "reset_game"}

\* one meditate of the fresh normal-difficulty character with talent 5: it
\* has hp 100, mana 50 and 1 pill, the meditate succeeds and leaves hp 99,
\* the mana raised by mana_gain, the total experience 7 and the streak 1
MeditateAtTalent5(mana_gain) ==
    (/\ Fresh /\ core.difficulty = "normal" /\ Talent = 5
     /\ Executes /\ Name = "dazuo") =>
        /\ Hp = 100 /\ Mp = 50 /\ Pills = 1
        /\ Succeeds
        /\ core'.character[1].health.current_hp = 99
        /\ core'.character[1].mana.current_mp = 50 + mana_gain
        /\ Effects.mp_recovery = mana_gain
        /\ core'.character[1].experience.total_experience = 7
        /\ StreakAfter = 1

\* C14 as stated: for a freshly initialised normal-difficulty character with
\* talent 5, one meditate succeeds and leaves hp = 99, mana increased by 11
\* (to 61), total_experience increased by 7 and meditation_streak = 1.
C14_MeditateAtTalent5ManaPlus11 == [][MeditateAtTalent5(11)]_vars

\* C14 amended: the same with the mana increased by int(8 + 5 * 0.8) = 12,
\* to 62.
C14_MeditateAtTalent5ManaPlus12 == [][MeditateAtTalent5(12)]_vars

C14_Witness ==
    /\ Initialised
    /\ core.difficulty = "normal" /\ Talent = 5
    /\ caller.calls = 2
    /\ call.op = "execute_action" /\ call.args = <<"dazuo">>
    /\ ret[1].success
    /\ Hp = 99 /\ Mp = 62 /\ TotalExp = 7 /\ Streak = 1

\* C15: for every successful action the effects returned equal what changed:
\* mp_recovery and hp_recovery are the amounts restore actually added (after
\* the cost was paid and with the cap at the maximum), exp_gain is the
\* increase of total_experience, an effect that is not reported did not
\* happen, and level_up = true with new_level = the tier's name is reported
\* iff the tier advanced during the action.
C15_EffectsEqualChanges ==
    [][(Executes /\ Initialised /\ Succeeds) =>
          LET cost == get_cost(get_action_by_name(Name)[1])
              after == core'.character[1]
              hp_added == after.health.current_hp - (Hp - cost.hp)
              mp_added == after.mana.current_mp - (Mp - cost.mp)
              exp_added == after.experience.total_experience - TotalExp
          IN  /\ IF "hp_recovery" \in DOMAIN Effects
                 THEN Effects.hp_recovery = hp_added
                 ELSE hp_added = 0
              /\ IF "mp_recovery" \in DOMAIN Effects
                 THEN Effects.mp_recovery = mp_added
                 ELSE mp_added = 0
              /\ IF "exp_gain" \in DOMAIN Effects
                 THEN Effects.exp_gain = exp_added
                 ELSE exp_added = 0
              /\ IF after.experience.current_realm # Realm
                 THEN /\ "level_up" \in DOMAIN Effects
                      /\ Effects.level_up
                      /\ Effects.new_level = RealmValue[after.experience.current_realm]
                 ELSE /\ "level_up" \notin DOMAIN Effects
                      /\ "new_level" \notin DOMAIN Effects
    ]_vars

\* a pill taken near full health and mana: both recoveries were cut at the cap
C15_Witness ==
    /\ Initialised
    /\ call.op = "execute_action" /\ call.args = <<"chidanyao">>
    /\ ret[1].success
    /\ Hp = 100 /\ ret[1].effects.hp_recovery \in 1..14
    /\ Mp = 100 /\ ret[1].effects.mp_recovery \in 1..14
    /\ ret[1].effects.exp_gain > 0

(***************************************************************************)
(* Properties of initialisation and reset (under Spec)                     *)
(***************************************************************************)
\* the pills a new character is to start with
StartingPills(difficulty) ==
    CASE difficulty = "easy" -> 3
      [] difficulty = "normal" -> 1
      [] difficulty = "hard" -> 0
      [] OTHER -> 1

\* C16: initialize_game gives the new character exactly 3 pills on easy, 1 on
\* normal, 0 on hard and 1 on any difficulty string that is not a preset,
\* whatever the previous character held.
C16_StartingPills ==
    [][call'.op = "initialize_game" =>
          /\ ret' = Some(TRUE)
          /\ PillsAfter = StartingPills(call'.args[2])
    ]_vars

\* a game initialised over an earlier one, with a difficulty that is no preset
C16_Witness ==
    /\ Initialised
    /\ caller.calls >= 2
    /\ call.op = "initialize_game" /\ call.args[2] = "nightmare"
    /\ core.difficulty = "nightmare"
    /\ Pills = 1

\* C17: the talent of a character made by initialize_game lies in the range
\* of its difficulty: 5..10 on easy, 1..10 on normal, 1..6 on hard.
C17_TalentInDifficultyRange ==
    Initialised =>
        CASE core.difficulty = "easy" -> Talent \in 5..10
          [] core.difficulty = "hard" -> Talent \in 1..6
          [] OTHER -> Talent \in 1..10

\* C18: from any engine state, Over included, reset_game returns the engine to
\* Active with a fresh character: hp 100, mp 50, streak 0, total_actions 0,
\* total and level experience 0, tier Qi Refining, the starting pills of the
\* difficulty, is_game_over false; and the engine leaves Over only by such a
\* re-initialisation (reset_game, or the initialize_game it consists of).
C18_ResetReturnsToActive ==
    [][/\ call'.op = "reset_game" =>
            /\ ret' = Some(TRUE)
            /\ ~core'.is_game_over
            /\ core'.character # None
            /\ LET after == core'.character[1]
               IN  /\ after.health.current_hp = 100
                   /\ after.mana.current_mp = 50
                   /\ after.meditation_streak = 0
                   /\ after.total_actions = 0
                   /\ after.experience.total_experience = 0
                   /\ after.experience.current_level_experience = 0
                   /\ after.experience.current_realm = "QI_REFINING"
                   /\ after.inventory.items["pill"] = StartingPills(core'.difficulty)
       /\ (core.is_game_over /\ ~core'.is_game_over) =>
            call'.op \in {"reset_game", "initialize_game"}
    ]_vars

\* a reset that gave a fresh character on easy
C18_Witness ==
    /\ Active
    /\ call.op = "reset_game"
    /\ ret = Some(TRUE)
    /\ core.difficulty = "easy"
    /\ Hp = 100 /\ Mp = 50 /\ Pills = 3 /\ Streak = 0 /\ TotalExp = 0
    /\ Realm = "QI_REFINING"
    /\ core.character[1].total_actions = 0

\* C19: reset_game without a name keeps the previous character's name and
\* without a difficulty keeps the previous difficulty; a name or difficulty
\* that is supplied replaces the previous one.
C19_ResetKeepsNameAndDifficulty ==
    [][(call'.op = "reset_game" /\ Initialised) =>
          /\ core'.character[1].name =
                IF call'.args[1] = None THEN core.character[1].name
                ELSE call'.args[1][1]
          /\ core'.difficulty =
                IF call'.args[2] = None THEN core.difficulty
                ELSE call'.args[2][1]
    ]_vars

(***************************************************************************)
(* The engine with previews: the caller may also ask what an action would *)
(* do before it calls it.                                                  *)
(***************************************************************************)
SimulateAction(action_name) ==
    /\ caller.plan = "free"
    /\ caller.calls < MaxCalls
    /\ LET r == simulate_action(core, action_name)
       IN  /\ core' = r.self
           /\ ret' = Some(r.ret)
    /\ call' = [op |-> "simulate_action", args |-> <<action_name>>]
    /\ caller' = [caller EXCEPT !.calls = @ + 1]
    /\ events' = <<>>
    /\ UNCHANGED <<experience, handler, saves, manager, registry, app>>

\* one game is initialised, played and previewed
NextSim ==
    \/ \E character_name \in CharacterNames, difficulty \in DifficultyNames,
          talent_value \in TalentRange, plan \in {"free", "meditate", "ascend"} :
            /\ core.character = None
            /\ InitializeGame(character_name, difficulty, talent_value, plan)
    \/ \E action_name \in ActionNames : ExecuteAction(action_name)
    \/ \E action_name \in ActionNames : SimulateAction(action_name)

SpecSim == Init /\ [][NextSim]_vars

\* C20: simulate_action changes nothing of the character, the log and the
\* engine, and its success flag, and on failure its message, are those
\* execute_action returns for the same name in the same state.
C20_SimulateAgreesWithExecute ==
    [][call'.op = "simulate_action" =>
          LET executed == execute_action(core, call'.args[1]).ret
          IN  /\ core' = core
              /\ ret'[1].success = executed.success
              /\ ~ret'[1].success => ret'[1].message = executed.message
    ]_vars

\* a preview of cultivate refused for want of mana, after a game was played
C20_Witness ==
    /\ Active
    /\ Mp < 20
    /\ TotalExp > 0
    /\ call.op = "simulate_action" /\ call.args = <<"xiulian">>
    /\ ret = Some(ActionResult(FALSE, Text("xianlibuzu_wufaxiulian"),
                               EmptyDict, EmptyDict))

(***************************************************************************)
(* The engine with listeners: before the game starts, callbacks are       *)
(* registered with the event handler, or the handler is disabled; then    *)
(* one game is played.                                                     *)
(***************************************************************************)
MaxListeners == 1

ListenedTypes == {"ACTION_EXECUTED", "CHARACTER_DIED"}

Callbacks == {"returns", "raises"}

Registered(self) ==
    {<<t, i>> \in EventType \X (1..MaxListeners + 1) : i <= Len(self.listeners[t])}

RegisterListener(event_type, callback) ==
    /\ core.character = None
    /\ Cardinality(Registered(handler)) < MaxListeners
    /\ handler' = register_listener(handler, event_type, callback)
    /\ call' = [op |-> "register_listener", args |-> <<event_type, callback>>]
    /\ ret' = None
    /\ events' = <<>>
    /\ UNCHANGED <<core, caller, experience, saves, manager, registry, app>>

Disable ==
    /\ core.character = None
    /\ handler = EventHandler
    /\ handler' = [handler EXCEPT !.enabled = FALSE]
    /\ call' = [op |-> "disable", args |-> <<>>]
    /\ ret' = None
    /\ events' = <<>>
    /\ UNCHANGED <<core, caller, experience, saves, manager, registry, app>>

\* the game is played by a plan, and the caller adds one call of its own
\* choice where it leaves the plan
NextEvents ==
    \/ \E event_type \in ListenedTypes, callback \in Callbacks :
            RegisterListener(event_type, callback)
    \/ Disable
    \/ \E talent_value \in SampleTalents, plan \in {"meditate", "ascend"} :
            /\ core.character = None
            /\ InitializeGame(None, "normal", talent_value, plan)
    \/ \E action_name \in Catalogued \cup {"meditate"} :
            /\ caller.plan = "free" => caller.calls = 1
            /\ ExecuteAction(action_name)

SpecEvents == Init /\ [][NextEvents]_vars

\* C27: whatever listeners are registered, whether one of them raises and
\* whether the handler is disabled, execute_action returns the result and
\* leaves the character, the log and the engine as it does with the handler
\* of a fresh module (no listener, enabled).
C27_ListenersDoNotChangeOutcome ==
    [][Executes =>
          LET action == get_action_by_name(Name)
              quiet == IF /\ Active
                          /\ action # None
                          /\ can_execute(action[1], core.character[1])
                       THEN execute_action_try(EventHandler, core, action[1], Name)
                       ELSE execute_action(core, Name)
          IN  /\ core' = quiet.self
              /\ ret' = Some(quiet.ret)
    ]_vars

\* a meditate that killed the character while a listener that raises was
\* registered for CHARACTER_DIED
C27_Witness ==
    /\ Initialised
    /\ Len(handler.listeners["CHARACTER_DIED"]) = 1
    /\ handler.listeners["CHARACTER_DIED"][1].callback = "raises"
    /\ handler.enabled
    /\ call.op = "execute_action" /\ call.args = <<"dazuo">>
    /\ ret[1].success
    /\ Hp = 0
    /\ core.is_game_over

(***************************************************************************)
(* Properties of the events (under Spec)                                   *)
(***************************************************************************)
EventTypesOf(evs) == [i \in 1..Len(evs) |-> evs[i].event_type]

Positions(evs, event_type) == {i \in 1..Len(evs) : evs[i].event_type = event_type}

\* C28: GAME_OVER is dispatched only by the execute_action call that turns
\* is_game_over true, once, after that call's ACTION_EXECUTED, and so never
\* again in the session; its victory flag is true iff the character is alive
\* at Ascension, and CHARACTER_DIED is dispatched, immediately before it, iff
\* the character died.
C28_GameOverDispatchedOnce ==
    [][LET over == Positions(events', "GAME_OVER")
           died == Positions(events', "CHARACTER_DIED")
       IN  /\ over # {} <=>
                /\ Executes /\ Initialised
                /\ ~core.is_game_over /\ core'.is_game_over
           /\ Cardinality(over) <= 1
           /\ \A k \in over :
                /\ \E j \in 1..(k - 1) : events'[j].event_type = "ACTION_EXECUTED"
                /\ k = Len(events')
                /\ events'[k].data.victory <=>
                      /\ core'.character[1].health.current_hp > 0
                      /\ core'.character[1].experience.current_realm = "ASCENSION"
                /\ died = {k - 1} <=> core'.character[1].health.current_hp = 0
           /\ over = {} => died = {}
           /\ Cardinality(died) <= 1
    ]_vars

\* the call that ended a game by death
C28_Witness ==
    /\ Initialised
    /\ core.is_game_over
    /\ Hp = 0
    /\ call.op = "execute_action"
    /\ EventTypesOf(events) = <<"ACTION_EXECUTED", "CHARACTER_DIED", "GAME_OVER">>
    /\ ~events[3].data.victory

\* the call that ended a game by Ascension
GameOverByAscension ==
    /\ Initialised
    /\ core.is_game_over
    /\ Realm = "ASCENSION"
    /\ call.op = "execute_action"
    /\ Len(events) >= 3
    /\ events[1].event_type = "ACTION_EXECUTED"
    /\ events[Len(events) - 1].event_type = "LEVEL_UP"
    /\ events[Len(events)] = GameEvent("GAME_OVER", [reason |-> "ascension", victory |-> TRUE])

(***************************************************************************)
(* The engine with a save slot.  One game is played; then the caller      *)
(* queries the statistics, or saves the game and loads the slot into a    *)
(* new engine.                                                             *)
(***************************************************************************)
SaveGame ==
    /\ LET r == save_game(core)
       IN  /\ saves' = IF r.ret THEN r.file ELSE saves
           /\ ret' = Some(r.ret)
    /\ call' = [op |-> "save_game", args |-> <<1>>]
    /\ events' = <<>>
    /\ UNCHANGED <<core, caller, experience, handler, manager, registry, app>>

\* new_game_core = GameCore(); new_game_core.load_game(slot)
LoadSaved(talent_value) ==
    /\ saves # None
    /\ LET r == load_game(GameCore, Some(json_load(saves[1])), talent_value)
       IN  /\ core' = r.self
           /\ ret' = Some(r.ret)
    /\ call' = [op |-> "load_game", args |-> <<Some(json_load(saves[1]))>>]
    /\ events' = load_game_dispatches(GameCore, Some(json_load(saves[1])), talent_value)
    /\ UNCHANGED <<caller, experience, handler, saves, manager, registry, app>>

GetGameStatistics ==
    /\ ret' = Some(get_game_statistics(core))
    /\ call' = [op |-> "get_game_statistics", args |-> <<>>]
    /\ events' = <<>>
    /\ UNCHANGED <<core, caller, experience, handler, saves, manager, registry, app>>

NextSave ==
    \/ \E character_name \in CharacterNames, talent_value \in SampleTalents,
          plan \in {"free", "meditate", "ascend"} :
            /\ core.character = None
            /\ call.op = "none"
            /\ InitializeGame(character_name, "normal", talent_value, plan)
    \/ \E action_name \in ActionNames :
            /\ saves = None
            /\ call.op # "get_game_statistics"
            /\ ExecuteAction(action_name)
    \/ /\ saves = None
       /\ call.op \notin {"save_game", "get_game_statistics"}
       /\ SaveGame
    \/ \E talent_value \in SampleTalents :
            /\ call.op = "save_game"
            /\ LoadSaved(talent_value)
    \/ /\ call.op # "get_game_statistics"
       /\ GetGameStatistics

SpecSave == Init /\ [][NextSave]_vars

\* C21: a game saved and then loaded into a new engine comes back with the
\* same name, hp, mp, pills, meditation streak, total_actions, realm, level
\* experience and total experience, and the same is_game_over flag.
C21_SaveLoadRoundTrip ==
    [][call.op = "save_game" /\ call'.op = "load_game" =>
          LET saved == core.character[1]
              loaded == core'.character[1]
          IN  /\ ret'[1]
              /\ loaded.name = saved.name
              /\ loaded.health.current_hp = saved.health.current_hp
              /\ loaded.mana.current_mp = saved.mana.current_mp
              /\ get_item_count(loaded.inventory, "pill")
                    = get_item_count(saved.inventory, "pill")
              /\ loaded.meditation_streak = saved.meditation_streak
              /\ loaded.total_actions = saved.total_actions
              /\ loaded.experience.current_realm = saved.experience.current_realm
              /\ loaded.experience.current_level_experience
                    = saved.experience.current_level_experience
              /\ loaded.experience.total_experience = saved.experience.total_experience
              /\ core'.is_game_over = core.is_game_over
    ]_vars

\* the round trip of everything but total_actions
SaveLoadRoundTripButTotalActions ==
    [][call.op = "save_game" /\ call'.op = "load_game" =>
          LET saved == core.character[1]
              loaded == core'.character[1]
          IN  /\ ret'[1]
              /\ [loaded EXCEPT !.total_actions = 0, !.talent = saved.talent]
                    = [saved EXCEPT !.total_actions = 0]
              /\ core'.is_game_over = core.is_game_over
              /\ core'.game_log = core.game_log
              /\ core'.difficulty = core.difficulty
    ]_vars

\* C26: on an initialised game get_game_statistics does not fail, and the
\* total_actions it reports is the character's count of successful actions.
C26_StatisticsCountActions ==
    call.op = "get_game_statistics" /\ Initialised =>
        /\ ret[1].raised = None
        /\ ret[1].ret[1].total_actions = core.character[1].total_actions

(***************************************************************************)
(* Properties of load_game (under SpecLoad)                                *)
(***************************************************************************)
Loads == call'.op = "load_game"
Loaded == call'.args[1]

\* C22: load_game of a save whose version is not the expected one returns
\* False and leaves the character, the log, the difficulty and is_game_over
\* as they were.
C22_VersionMismatchChangesNothing ==
    [][(Loads /\ Loaded # None /\ Loaded[1].version # "2.0.0") =>
            /\ ret' = Some(FALSE)
            /\ core' = core
    ]_vars

\* a save of another version refused on an engine whose game was played
C22_Witness ==
    /\ call.op = "load_game"
    /\ call.args[1] # None
    /\ call.args[1][1].version = "1.0.0"
    /\ ret = Some(FALSE)
    /\ Active
    /\ core.character[1].total_actions > 0
    /\ core.character[1].name = "wumingxiushi"

\* C23: load_game of a save whose realm is none of the six display names
\* fails.
C23_UnknownRealmFails ==
    [][(/\ Loads /\ Loaded # None /\ Loaded[1].version = "2.0.0"
        /\ Loaded[1].character.realm \notin {RealmValue[r] : r \in RealmLevel}) =>
            ret' = Some(FALSE)
    ]_vars

\* C24: a load_game that returns False leaves the character, the log, the
\* difficulty and is_game_over as they were.
C24_FailedLoadChangesNothing ==
    [][(Loads /\ ret' = Some(FALSE)) => core' = core]_vars

\* the failures that do leave the engine as it was: no file, another version
FailedLoadBeforeInitialisation ==
    [][(Loads /\ (Loaded = None \/ Loaded[1].version # "2.0.0")) =>
            /\ ret' = Some(FALSE)
            /\ core' = core
    ]_vars

\* C25: an execute_action entered with hp = 0, or at Ascension, on an engine
\* that is not over, sets is_game_over and logs the line of the ending.
C25_EveryCallChecksGameOver ==
    [][(Executes /\ Active /\ (Hp = 0 \/ Realm = "ASCENSION")) =>
            /\ core'.is_game_over
            /\ Len(core'.game_log[1].entries) > 0
            /\ core'.game_log[1].entries[Len(core'.game_log[1].entries)]
                  = IF Hp = 0 THEN Text("xiulianshibai_youxijieshu")
                              ELSE Text("gongxi_chenggongfeisheng")
    ]_vars

(***************************************************************************)
(* A CharacterStats on its own: constructed, its hp, mana and pills set,  *)
(* then charged.                                                           *)
(***************************************************************************)
MaxCharges == 3

ManaAmounts == {0, 1, 20, 50, 60}

Costs == {Cost(hp, mp, pills, time) :
            hp \in {0, 1, 40}, mp \in {0, 20}, pills \in {0, 1}, time \in {0, 2}}

InitUnit ==
    /\ \E hp \in {1, 100}, mp \in {0, 50, 60}, pills \in {0, 3} :
            core = [GameCore EXCEPT
                       !.character = Some([CharacterStats("ceshi", 5) EXCEPT
                                              !.health.current_hp = hp,
                                              !.mana.current_mp = mp,
                                              !.inventory.items["pill"] = pills])]
    /\ caller = Caller
    /\ call = NoCall
    /\ ret = None
    /\ experience = ExperienceComponent
    /\ handler = EventHandler
    /\ events = <<>>
    /\ saves = None
    /\ manager = StateManager
    /\ registry = ActionRegistry
    /\ app = GameApplication

\* character.mana.consume(amount)
ManaConsume(amount) ==
    /\ caller.calls < MaxCharges
    /\ LET r == mana_consume(core.character[1].mana, amount)
       IN  /\ core' = [core EXCEPT !.character[1].mana = r.self]
           /\ ret' = Some(r.ret)
    /\ call' = [op |-> "consume", args |-> <<amount>>]
    /\ caller' = [caller EXCEPT !.calls = @ + 1]
    /\ UNCHANGED <<experience, handler, events, saves, manager, registry, app>>

\* character.apply_cost(cost)
ApplyCost(cost) ==
    /\ caller.calls < MaxCharges
    /\ LET r == apply_cost(core.character[1], cost)
       IN  /\ core' = [core EXCEPT !.character[1] = r.self]
           /\ ret' = Some(r.ret)
    /\ call' = [op |-> "apply_cost", args |-> <<cost>>]
    /\ caller' = [caller EXCEPT !.calls = @ + 1]
    /\ UNCHANGED <<experience, handler, events, saves, manager, registry, app>>

NextUnit ==
    \/ \E amount \in ManaAmounts : ManaConsume(amount)
    \/ \E cost \in Costs : ApplyCost(cost)

SpecUnit == InitUnit /\ [][NextUnit]_vars

(***************************************************************************)
(* Properties of the charges (under SpecUnit)                              *)
(***************************************************************************)
\* C29: ManaComponent.consume(amount) with less mana than amount returns False
\* and leaves the mana as it was; otherwise it takes exactly amount and
\* returns True (an amount equal to the mana leaves 0); nothing else changes.
C29_ManaConsumeAllOrNothing ==
    [][call'.op = "consume" =>
          LET amount == call'.args[1]
          IN  IF Mp < amount
              THEN /\ ret' = Some(FALSE)
                   /\ core' = core
              ELSE /\ ret' = Some(TRUE)
                   /\ core' = [core EXCEPT !.character[1].mana.current_mp = Mp - amount]
    ]_vars

\* all the mana consumed in one call
C29_Witness ==
    /\ call.op = "consume"
    /\ call.args[1] > 0
    /\ ret = Some(TRUE)
    /\ Mp = 0

\* a consume refused, the mana still there
ManaConsumeRefused ==
    /\ call.op = "consume"
    /\ ret = Some(FALSE)
    /\ Mp > 0

\* C30: apply_cost(cost) with hp < cost.hp, mp < cost.mp or pills < cost.pills
\* returns False and changes nothing; otherwise it takes exactly cost.hp,
\* cost.mp and cost.pills, adds 1 to total_actions and returns True.  The
\* outcome is the same for every cost.time.
C30_ApplyCostAtomic ==
    [][call'.op = "apply_cost" =>
          LET cost == call'.args[1]
              total_actions == core.character[1].total_actions
          IN  IF Hp < cost.hp \/ Mp < cost.mp \/ Pills < cost.pills
              THEN /\ ret' = Some(FALSE)
                   /\ core' = core
              ELSE /\ ret' = Some(TRUE)
                   /\ core' = [core EXCEPT
                                  !.character[1].health.current_hp = Hp - cost.hp,
                                  !.character[1].mana.current_mp = Mp - cost.mp,
                                  !.character[1].inventory.items["pill"] = Pills - cost.pills,
                                  !.character[1].total_actions = total_actions + 1]
    ]_vars

\* a cost of hp, mana, a pill and time paid
C30_Witness ==
    /\ call.op = "apply_cost"
    /\ call.args[1] = Cost(1, 20, 1, 2)
    /\ ret = Some(TRUE)
    /\ core.character[1].total_actions = 2

\* a cost refused for want of mana by a character who could pay its hp
ApplyCostRefused ==
    /\ call.op = "apply_cost"
    /\ call.args[1].hp > 0 /\ call.args[1].hp <= Hp
    /\ call.args[1].mp > Mp
    /\ ret = Some(FALSE)

GetAvailableActions ==
    /\ ret' = Some(get_available_actions(core))
    /\ call' = [op |-> "get_available_actions", args |-> <<>>]
    /\ events' = <<>>
    /\ UNCHANGED <<core, caller, experience, handler, saves, manager, registry, app>>

NextQuery ==
    \/ \E character_name \in CharacterNames, difficulty \in DifficultyNames,
          talent_value \in SampleTalents, plan \in {"free", "meditate", "ascend"} :
            /\ core.character = None
            /\ InitializeGame(character_name, difficulty, talent_value, plan)
    \/ \E action_name \in ActionNames : ExecuteAction(action_name)
    \/ /\ call.op # "get_available_actions"
       /\ GetAvailableActions

SpecQuery == Init /\ [][NextQuery]_vars

Range(seq) == {seq[i] : i \in 1..Len(seq)}

AvailableActionsWhenOver ==
    /\ call.op = "get_available_actions"
    /\ Initialised
    /\ core.is_game_over
    /\ ret[1] = <<>>

(***************************************************************************)
(* A StateManager on its own: constructed, its max_history_size set, then *)
(* fed the states s1, s2, ... and asked for earlier states or rolled back. *)
(* The caller counts the states it has fed, and remembers a rollback.      *)
(***************************************************************************)
MaxUpdates == 4

HistorySizes == {2, 50}

StepsBack == 1..4

\* the i-th state fed
FedState(i) == [test |-> i]

InitManager ==
    /\ \E size \in HistorySizes :
            manager = [StateManager EXCEPT !.max_history_size = size]
    /\ caller = Caller
    /\ call = NoCall
    /\ ret = None
    /\ core = GameCore
    /\ experience = ExperienceComponent
    /\ handler = EventHandler
    /\ events = <<>>
    /\ saves = None
    /\ registry = ActionRegistry
    /\ app = GameApplication

UpdateState ==
    /\ caller.calls < MaxUpdates
    /\ manager' = update_state(manager, FedState(caller.calls + 1))
    /\ caller' = [caller EXCEPT !.calls = @ + 1]
    /\ call' = [op |-> "update_state", args |-> <<FedState(caller.calls + 1)>>]
    /\ ret' = None
    /\ UNCHANGED <<core, experience, handler, events, saves, registry, app>>

GetPreviousState(steps_back) ==
    /\ ret' = Some(get_previous_state(manager, steps_back))
    /\ call' = [op |-> "get_previous_state", args |-> <<steps_back>>]
    /\ UNCHANGED <<core, caller, experience, handler, events, saves, manager, registry, app>>

RollbackState(steps_back) ==
    /\ \E r \in {rollback_state(manager, steps_back)} :
            /\ manager' = r.self
            /\ ret' = Some(r.ret)
            /\ caller' = IF r.ret THEN [caller EXCEPT !.plan = "rolled"] ELSE caller
    /\ call' = [op |-> "rollback_state", args |-> <<steps_back>>]
    /\ UNCHANGED <<core, experience, handler, events, saves, registry, app>>

NextManager ==
    \/ UpdateState
    \/ \E steps_back \in StepsBack : GetPreviousState(steps_back)
    \/ \E steps_back \in StepsBack : RollbackState(steps_back)

SpecManager == InitManager /\ [][NextManager]_vars

(***************************************************************************)
(* Properties of the StateManager (under SpecManager)                      *)
(***************************************************************************)
\* the manager has been fed s1..sn and not rolled back
FedOnly == caller.plan = "free" /\ caller.calls >= 1

\* the history of a manager fed s1..sn: the newest of s1..s(n-1), at most
\* max_history_size of them, oldest first
HistoryOfFed ==
    LET n == caller.calls
        held == Min(n - 1, manager.max_history_size)
    IN  /\ manager.current_state = FedState(n)
        /\ manager.state_history =
               [j \in 1..held |-> [state |-> FedState(n - 1 - held + j)]]

\* get_previous_state(k) and rollback_state(k) on a manager fed s1..sn, where
\* the k-th state back is taken to be there for k up to reach
PreviousAndRollback(reach) ==
    FedOnly =>
        LET n == caller.calls
            k == call'.args[1]
        IN  /\ call'.op = "get_previous_state" =>
                /\ ret' = Some(IF k <= reach THEN Some(FedState(n - k)) ELSE None)
                /\ manager' = manager
            /\ call'.op = "rollback_state" =>
                IF k <= reach
                THEN /\ ret' = Some(TRUE)
                     /\ manager'.current_state = FedState(n - k)
                     /\ Len(manager.state_history) >= k
                     /\ manager'.state_history =
                            SubSeq(manager.state_history, 1,
                                   Len(manager.state_history) - k)
                ELSE /\ ret' = Some(FALSE)
                     /\ manager' = manager

\* C33 (as stated): on a manager fed s1..sn the history is the newest of
\* s1..s(n-1), never more than max_history_size; get_previous_state(k) returns
\* s(n-k) for 1 <= k <= n-1 and None for larger k; rollback_state(k) with
\* 1 <= k <= n-1 sets the current state to s(n-k), removes the k newest
\* history entries and returns True, and with larger k returns False and
\* changes nothing.
C33_PreviousStateUpToNMinus1 ==
    [][/\ FedOnly' => HistoryOfFed'
       /\ PreviousAndRollback(caller.calls - 1)]_vars

\* C33 (amended): the same with k reaching min(n-1, max_history_size), the
\* length of the history, instead of n-1.
C33_PreviousStateUpToHistory ==
    [][/\ FedOnly' => HistoryOfFed'
       /\ PreviousAndRollback(Min(caller.calls - 1, manager.max_history_size))]_vars

\* a rollback by two on a manager of history size 2 fed four states
C33_Witness ==
    /\ manager.max_history_size = 2
    /\ caller.calls = 4
    /\ call.op = "rollback_state" /\ call.args = <<2>>
    /\ ret = Some(TRUE)
    /\ manager.current_state = FedState(2)
    /\ manager.state_history = <<>>

\* the state three back has been evicted
EvictedStateAskedFor ==
    /\ manager.max_history_size = 2
    /\ caller.calls = 4
    /\ caller.plan = "free"
    /\ call.op = "get_previous_state" /\ call.args = <<3>>
    /\ ret = Some(None)

(***************************************************************************)
(* The four actions on their own: a character is constructed, its hp,     *)
(* mana and pills set, and actions are executed on it with a log.          *)
(***************************************************************************)
InitAct ==
    /\ \E hp \in {0, 1, 2, 100}, mp \in {0, 19, 20, 50}, pills \in {0, 1, 3},
          talent_value \in SampleTalents :
            core = [GameCore EXCEPT
                       !.character = Some([CharacterStats("ceshi", talent_value) EXCEPT
                                              !.health.current_hp = hp,
                                              !.mana.current_mp = mp,
                                              !.inventory.items["pill"] = pills]),
                       !.game_log = Some(GameLog)]
    /\ caller = Caller
    /\ call = NoCall
    /\ ret = None
    /\ experience = ExperienceComponent
    /\ handler = EventHandler
    /\ events = <<>>
    /\ saves = None
    /\ manager = StateManager
    /\ registry = ActionRegistry
    /\ app = GameApplication

\* action.execute(character, game_log)
ActionExecute(action) ==
    /\ caller.calls < MaxCharges
    /\ \E r \in {execute(action, core.character[1], core.game_log[1])} :
            /\ core' = [core EXCEPT !.character = Some(r.character),
                                    !.game_log = Some(r.game_log)]
            /\ ret' = Some(r.result)
    /\ call' = [op |-> "execute", args |-> <<action>>]
    /\ caller' = [caller EXCEPT !.calls = @ + 1]
    /\ UNCHANGED <<experience, handler, events, saves, manager, registry, app>>

NextAct == \E i \in 1..Len(get_all_actions) : ActionExecute(get_all_actions[i])

SpecAct == InitAct /\ [][NextAct]_vars

\* C34: for each of the four actions can_execute implies that the character
\* can pay the action's cost, so the apply_cost inside execute returns True:
\* an action that succeeds has paid its whole cost and counted one action,
\* and execute succeeds exactly when can_execute holds.
C34_EligibleActionsCanPay ==
    [][call'.op = "execute" =>
          LET action == call'.args[1]
              character == core.character[1]
              paid == apply_cost(character, get_cost(action))
          IN  /\ \A i \in 1..Len(get_all_actions) :
                    can_execute(get_all_actions[i], character) =>
                        can_perform_action(character, get_cost(get_all_actions[i]))
              /\ ret'[1].success = can_execute(action, character)
              /\ ret'[1].success =>
                    /\ paid.ret
                    /\ paid.self.health.current_hp = Hp - get_cost(action).hp
                    /\ paid.self.mana.current_mp = Mp - get_cost(action).mp
                    /\ get_item_count(paid.self.inventory, "pill")
                          = Pills - get_cost(action).pills
                    /\ core'.character[1].total_actions = character.total_actions + 1
                    /\ core'.character[1].mana.current_mp >= paid.self.mana.current_mp
                    /\ core'.character[1].health.current_hp >= paid.self.health.current_hp
                    /\ Pills - get_cost(action).pills
                          <= get_item_count(core'.character[1].inventory, "pill")
              /\ ~ret'[1].success =>
                    core'.character[1].total_actions = character.total_actions
    ]_vars

\* a cultivate that took all the mana there was
C34_Witness ==
    /\ call.op = "execute"
    /\ call.args[1].class = "CultivateAction"
    /\ ret[1].success
    /\ Mp = 0
    /\ core.character[1].total_actions = 1

(***************************************************************************)
(* Properties of the progression (under Spec)                              *)
(***************************************************************************)
LevelExp == core.character[1].experience.current_level_experience

\* C35: in every state of a game the level experience is below the threshold
\* of the tier, unless the tier is Ascension, and no execute_action moves the
\* tier by more than one step: no action grants as much experience as the
\* smallest threshold.
C35_LevelExperienceBelowThreshold ==
    [][/\ Initialised' =>
            \/ Realm' = "ASCENSION"
            \/ Less(LevelExp', realm_thresholds[Realm'])
       /\ (Executes /\ Initialised) =>
            /\ RealmIndex(Realm') \in {RealmIndex(Realm), RealmIndex(Realm) + 1}
            /\ TotalExp' - TotalExp < 100
            /\ \A r \in RealmLevel : GreaterEq(100, realm_thresholds[r]) => r = "QI_REFINING"
    ]_vars

\* a cultivate at talent 10 that broke through to the last tier before
\* Ascension and carried experience over
C35_Witness ==
    /\ Initialised
    /\ call.op = "execute_action" /\ call.args = <<"xiulian">>
    /\ ret[1].success
    /\ \E i \in 1..Len(events) : events[i].event_type = "LEVEL_UP"
    /\ Realm = "SPIRITUAL_TRANSFORMATION"
    /\ LevelExp > 0
    /\ Talent = 10

(***************************************************************************)
(* The experience accounts (under SpecExp)                                 *)
(***************************************************************************)
RECURSIVE ThresholdsBelow(_)
\* the sum of the thresholds of the tiers below the i-th
ThresholdsBelow(i) ==
    IF i <= 1 THEN 0 ELSE realm_thresholds[realms[i - 1]].n + ThresholdsBelow(i - 1)

\* C36: in every state a new ExperienceComponent reaches by add_experience
\* calls, total_experience is current_level_experience plus the thresholds
\* of all tiers below the current one: a breakthrough neither loses nor
\* makes experience.
C36_ExperienceAccounts ==
    experience.total_experience
        = experience.current_level_experience
              + ThresholdsBelow(RealmIndex(experience.current_realm))

\* a second breakthrough that carried experience over, the level experience
\* still at or above the new threshold
C36_Witness ==
    /\ call.op = "add_experience"
    /\ ret[1].breakthrough
    /\ experience.current_realm = "CORE_FORMATION"
    /\ GreaterEq(experience.current_level_experience,
                 realm_thresholds["CORE_FORMATION"])

(***************************************************************************)
(* The rules engine against the actions (under SpecAct)                    *)
(***************************************************************************)
Field(effects, name) == IF name \in DOMAIN effects THEN effects[name] ELSE 0

\* what GameRule computes for the action of a class
RuleEffects(class, character) ==
    CASE class = "MeditateAction" -> calculate_meditation_effects(character)
      [] class = "ConsumePillAction" -> calculate_pill_effects(character)
      [] class = "CultivateAction" -> calculate_cultivation_effects(character)
      [] class = "WaitAction" -> calculate_wait_effects(character)

\* a successful execute took the costs and gave the recoveries and the
\* experience that the rules compute, the recoveries cut at the maxima
RulesAgree(talents) ==
    (/\ call'.op = "execute"
     /\ ret'[1].success
     /\ Talent \in talents[call'.args[1].class]) =>
        LET action == call'.args[1]
            character == core.character[1]
            after == core'.character[1]
            rule == RuleEffects(action.class, character)
        IN  /\ get_cost(action) = Cost(Field(rule, "hp_cost"), Field(rule, "mp_cost"),
                                       Field(rule, "consume_cost"), Field(rule, "time_cost"))
            /\ after.health.current_hp
                  = Min(character.health.max_hp,
                        Hp - Field(rule, "hp_cost") + Field(rule, "hp_recovery"))
            /\ after.mana.current_mp
                  = Min(character.mana.max_mp,
                        Mp - Field(rule, "mp_cost") + Field(rule, "mp_recovery"))
            /\ after.experience.total_experience
                  = character.experience.total_experience + Field(rule, "exp_gain")

\* C37: for every talent in 1..10 the costs, the recoveries before the cut
\* at the maximum and the experience that calculate_meditation_effects,
\* calculate_pill_effects, calculate_cultivation_effects and
\* calculate_wait_effects return are the ones MeditateAction,
\* ConsumePillAction, CultivateAction and WaitAction apply.
C37_RulesAgreeWithActions ==
    [][RulesAgree([class \in {"MeditateAction", "ConsumePillAction",
                              "CultivateAction", "WaitAction"} |-> TalentRange])]_vars

\* the talents at which int(2 + talent * 0.2) = 2 and int(3 + talent * 0.2) = 3
WaitAgrees == {talent \in TalentRange : calculate_talent_bonus(2, talent, "wait") = 2
                                        /\ calculate_talent_bonus(3, talent, "wait") = 3}

\* the rules and the actions agree on meditate, pill and cultivate at every
\* talent, and on wait at the talents 1..4 only
RulesAgreeButForWait ==
    /\ WaitAgrees = 1..4
    /\ [][RulesAgree([class \in {"MeditateAction", "ConsumePillAction",
                                 "CultivateAction", "WaitAction"} |->
                        IF class = "WaitAction" THEN WaitAgrees ELSE TalentRange])]_vars

(***************************************************************************)
(* The application with a save slot.  One game is played through the      *)
(* application, by a plan and then by calls of the caller's choice; the    *)
(* slot is written and read both by the engine (GameCore.save_game and     *)
(* load_game) and by the system actions save_game and load_game.           *)
(***************************************************************************)
\* json.load of the slot's file, whichever save path wrote it
slot_file(save_file) ==
    IF save_file = None THEN None
    ELSE IF "character" \in DOMAIN save_file[1] THEN Some(json_load(save_file[1]))
    ELSE save_file

\* GameApplication._execute_action(action_name)
ApplicationExecuteAction(action_name) ==
    \E r \in {execute_action_of_application(app, core, saves, action_name)} :
        /\ \/ /\ caller.plan = "free"
              /\ caller.calls < MaxCalls
              /\ caller' = [caller EXCEPT !.calls = @ + 1]
           \/ /\ caller.plan # "free"
              /\ action_name = Planned(caller.plan, core)
              /\ \/ ~r.game_core.is_game_over /\ caller' = caller
                 \/ SwitchPoint(r.game_core) /\ caller' = [caller EXCEPT !.plan = "free"]
        /\ app' = r.app
        /\ core' = r.game_core
        /\ saves' = r.file
        /\ ret' = Some(r.ret)
        /\ events' = r.events
        /\ call' = [op |-> "_execute_action", args |-> <<action_name>>]
        /\ UNCHANGED <<experience, handler, manager, registry>>

\* game_core.save_game(1)
SaveSlot ==
    /\ caller.plan = "free"
    /\ caller.calls < MaxCalls
    /\ caller' = [caller EXCEPT !.calls = @ + 1]
    /\ LET r == save_game(core)
       IN  /\ saves' = IF r.ret THEN r.file ELSE saves
           /\ ret' = Some(r.ret)
    /\ call' = [op |-> "save_game", args |-> <<1>>]
    /\ events' = <<>>
    /\ UNCHANGED <<core, experience, handler, manager, registry, app>>

\* game_core.load_game(1)
LoadSlot(talent_value) ==
    /\ caller.plan = "free"
    /\ caller.calls < MaxCalls
    /\ caller' = [caller EXCEPT !.calls = @ + 1]
    /\ LET r == load_game(core, slot_file(saves), talent_value)
       IN  /\ core' = r.self
           /\ ret' = Some(r.ret)
    /\ call' = [op |-> "load_game", args |-> <<1>>]
    /\ events' = load_game_dispatches(core, slot_file(saves), talent_value)
    /\ UNCHANGED <<experience, handler, saves, manager, registry, app>>

\* GameApplication.initialize starts the game before any action is run
NextSlot ==
    \/ \E talent_value \in SampleTalents, plan \in {"free", "meditate", "ascend"} :
            /\ core.character = None
            /\ call.op = "none"
            /\ InitializeGame(None, "normal", talent_value, plan)
    \/ \E action_name \in {"dazuo", "chidanyao", "xiulian", "dengdai",
                           "save_game", "load_game"} :
            /\ Initialised
            /\ ApplicationExecuteAction(action_name)
    \/ /\ Initialised
       /\ SaveSlot
    \/ \E talent_value \in SampleTalents :
            /\ Initialised
            /\ LoadSlot(talent_value)

SpecSlot == Init /\ [][NextSlot]_vars

\* the slot holds a file
SlotWritten == saves # None

\* C38: the two save paths are interchangeable: whichever of
\* GameCore.save_game(1) and the save_game system action wrote
\* saves/save_slot_1.json, both GameCore.load_game(1) and the load_game
\* system action accept the file.
C38_SavePathsInterchangeable ==
    [][/\ (call'.op = "load_game" /\ SlotWritten) => ret'[1] = TRUE
       /\ (/\ call'.op = "_execute_action"
           /\ call'.args = <<"load_game">>
           /\ SlotWritten) => ret'[1].success
    ]_vars

\* each loader accepts the files of its own save path and no other
EachLoaderReadsItsOwnFiles ==
    [][/\ (call'.op = "load_game" /\ SlotWritten) =>
            (ret'[1] = TRUE <=> saves[1].version = "2.0.0")
       /\ (/\ call'.op = "_execute_action"
           /\ call'.args = <<"load_game">>
           /\ SlotWritten) => (ret'[1].success <=> saves[1].version = "2.0")
    ]_vars

SavedCharacter == saves[1].game_core.character[1]

\* C39: after a successful load_game system action the character's hp, mp,
\* pills, meditation streak, realm and experience are those of the save, and
\* is_game_over <=> (hp = 0 or the realm is Ascension) still holds.
C39_LoadActionRestoresCharacter ==
    [][(/\ call'.op = "_execute_action"
        /\ call'.args = <<"load_game">>
        /\ ret'[1].success) =>
            /\ Hp' = SavedCharacter.hp
            /\ Mp' = SavedCharacter.mp
            /\ Pills' = SavedCharacter.pills
            /\ Streak' = SavedCharacter.meditation_streak
            /\ RealmValue[Realm'] = SavedCharacter.realm
            /\ LevelExp' = SavedCharacter.exp
            /\ TotalExp' = SavedCharacter.total_exp
            /\ core'.is_game_over <=> (Hp' = 0 \/ Realm' = "ASCENSION")
    ]_vars

\* what the load_game system action does restore: the difficulty and the
\* is_game_over of the save and the application's count, the character untouched
LoadActionRestoresFlagsOnly ==
    [][(/\ call'.op = "_execute_action"
        /\ call'.args = <<"load_game">>
        /\ ret'[1].success) =>
            /\ core'.character = core.character
            /\ core'.game_log = core.game_log
            /\ core'.is_game_over = saves[1].game_core.is_game_over
            /\ core'.difficulty = saves[1].game_core.difficulty
            /\ app'.total_actions = saves[1].application.total_actions + 1
    ]_vars

(***************************************************************************)
(* The registry on its own: a new ActionRegistry on which actions are      *)
(* registered, unregistered, enabled and disabled and the categories       *)
(* listed, MaxRegistryCalls calls in all.                                  *)
(***************************************************************************)
MaxRegistryCalls == 3

ActionIds == {"meditate", "wait"}
Categories == {"game", "test"}
SortOrders == {1, 2}

InitRegistry ==
    /\ registry = ActionRegistry
    /\ manager = StateManager
    /\ app = GameApplication
    /\ core = GameCore
    /\ caller = Caller
    /\ call = NoCall
    /\ ret = None
    /\ experience = ExperienceComponent
    /\ handler = EventHandler
    /\ events = <<>>
    /\ saves = None

RegistryCall(op, args) ==
    /\ caller.calls < MaxRegistryCalls
    /\ caller' = [caller EXCEPT !.calls = @ + 1]
    /\ call' = [op |-> op, args |-> args]
    /\ UNCHANGED <<core, experience, handler, events, saves, manager, app>>

RegisterAction(action_id, category, sort_order, enabled) ==
    /\ RegistryCall("register_action", <<action_id, category, sort_order, enabled>>)
    /\ LET r == register_action(registry, action_id, "WaitAction", category,
                                sort_order, enabled)
       IN  /\ registry' = r.self
           /\ ret' = Some(r.ret)

UnregisterAction(action_id) ==
    /\ RegistryCall("unregister_action", <<action_id>>)
    /\ LET r == unregister_action(registry, action_id)
       IN  /\ registry' = r.self
           /\ ret' = Some(r.ret)

EnableAction(action_id) ==
    /\ RegistryCall("enable_action", <<action_id>>)
    /\ LET r == set_enabled(registry, action_id, TRUE)
       IN  /\ registry' = r.self
           /\ ret' = Some(r.ret)

DisableAction(action_id) ==
    /\ RegistryCall("disable_action", <<action_id>>)
    /\ LET r == set_enabled(registry, action_id, FALSE)
       IN  /\ registry' = r.self
           /\ ret' = Some(r.ret)

GetActionsByCategory(category) ==
    /\ RegistryCall("get_actions_by_category", <<category>>)
    /\ LET r == get_actions_by_category(registry, category)
       IN  /\ registry' = r.self
           /\ ret' = Some(r.ret)

NextRegistry ==
    \/ \E action_id \in ActionIds, category \in Categories,
          sort_order \in SortOrders, enabled \in BOOLEAN :
            RegisterAction(action_id, category, sort_order, enabled)
    \/ \E action_id \in ActionIds : UnregisterAction(action_id)
    \/ \E action_id \in ActionIds : EnableAction(action_id)
    \/ \E action_id \in ActionIds : DisableAction(action_id)
    \/ \E category \in Categories : GetActionsByCategory(category)

SpecRegistry == InitRegistry /\ [][NextRegistry]_vars

\* how often the list holds the id
Count(list, action_id) == Cardinality({i \in 1..Len(list) : list[i] = action_id})

RegisteredIds(self) == DOMAIN self.action_info

\* every registered id is once in the list of the category of its ActionInfo
RegisteredIdsListed(self) ==
    \A action_id \in RegisteredIds(self) :
        LET category == self.action_info[action_id].category
        IN  /\ category \in DOMAIN self.categories
            /\ Count(self.categories[category], action_id) = 1

\* no list of another category holds a registered id, and no list an
\* unregistered id
NoStrayIds(self) ==
    \A category \in DOMAIN self.categories :
        \A i \in 1..Len(self.categories[category]) :
            LET action_id == self.categories[category][i]
            IN  /\ action_id \in RegisteredIds(self)
                /\ self.action_info[action_id].category = category

\* the list holds each enabled id of the category once and nothing else, in
\* ascending sort_order
EnabledOfCategory(self, category, list) ==
    /\ \A action_id \in RegisteredIds(self) :
           Count(list, action_id)
               = IF /\ self.action_info[action_id].category = category
                    /\ self.action_info[action_id].enabled
                 THEN 1 ELSE 0
    /\ \A i \in 1..Len(list) : list[i] \in RegisteredIds(self)
    /\ \A i, j \in 1..Len(list) :
           i < j => self.action_info[list[i]].sort_order
                        <= self.action_info[list[j]].sort_order

\* C40: the id lists agree with the ActionInfo records: every registered id
\* is in exactly one category list, that of its ActionInfo, no unregistered
\* id is in any list, and get_actions_by_category returns exactly the
\* enabled ids of the category in ascending sort_order.
C40_CategoryListsMatchInfo ==
    [][/\ RegisteredIdsListed(registry')
       /\ NoStrayIds(registry')
       /\ call'.op = "get_actions_by_category" =>
              EnabledOfCategory(registry', call'.args[1], ret'[1])
    ]_vars

\* what does hold: a registered id is once in the list of its category, the
\* actions and their records have the same ids, and get_actions_by_category
\* returns the list of the category, less the disabled ids, in ascending
\* sort_order
RegistryKeepsItsOwnLists ==
    [][/\ RegisteredIdsListed(registry')
       /\ DOMAIN registry'.actions = DOMAIN registry'.action_info
       /\ call'.op = "get_actions_by_category" =>
              LET category == call'.args[1]
                  list == ret'[1]
                  key(x) == info_or_default(registry', x).sort_order
              IN  /\ \A i, j \in 1..Len(list) : i < j => key(list[i]) <= key(list[j])
                  /\ category \in DOMAIN registry'.categories =>
                        list = SelectSeq(registry'.categories[category],
                                         LAMBDA x : info_or_default(registry', x).enabled)
                  /\ category \notin DOMAIN registry'.categories => list = <<>>
    ]_vars

\* an id registered again under another category is still listed, and
\* returned, under the first
RecategorisedIdReturned ==
    /\ call.op = "get_actions_by_category"
    /\ \E i \in 1..Len(ret[1]) :
           /\ ret[1][i] \in RegisteredIds(registry)
           /\ registry.action_info[ret[1][i]].category # call.args[1]

====
